---- MODULE Spec2Model ----
(***************************************************************************)
(* Model of the sap-bot retrieval pipeline:                                *)
(*   document_preprocessor.py     DocumentPreprocessor (chunker)           *)
(*   intent_classifier.py         IntentClassifier                         *)
(*   embedding_manager_enhanced.py EnhancedEmbeddingManager                *)
(*   gemini_assistant.py          GeminiAssistant                          *)
(*   app.py                       get_intelligent_response, main           *)
(*   setup_index.py               setup                                    *)
(*                                                                         *)
(* A Python str is a sequence of characters; a character is a TLA+ string  *)
(* naming it ("a", " ", "\n", "DEL", ...).  None is the empty tuple.       *)
(***************************************************************************)
EXTENDS Integers, Sequences, FiniteSets, TLC

VARIABLES
    chunk_size,     \* DocumentPreprocessor.chunk_size
    overlap,        \* DocumentPreprocessor.overlap
    content,        \* text of the file handed to process_document
    passages,       \* rows returned by the last process_document
    emitted_chunks, \* the chunks _split_section_into_chunks emitted for it
    pp_done,        \* TRUE once process_document has returned
    index,          \* EnhancedEmbeddingManager.index: None or Some(embeddings)
    chunks_df,      \* EnhancedEmbeddingManager.chunks_df: None or Some(rows)
    gemini_assistant, \* TRUE when the manager holds a GeminiAssistant
    sap_intents,    \* iteration order of the set IntentClassifier.sap_intents
    faiss_ties,     \* order in which index.search returns equal similarities
    disk,           \* the files of the index directory: faiss.index, chunks.parquet
    save_pc,        \* how far a save in progress has come
    session_state,  \* st.session_state of the Streamlit app
    ret             \* what the last call returned or raised

chunker_vars == <<chunk_size, overlap, content, passages, emitted_chunks, pp_done>>
manager_vars == <<index, chunks_df, gemini_assistant, sap_intents, faiss_ties>>
store_vars == <<disk, save_pc>>
vars == <<chunk_size, overlap, content, passages, emitted_chunks, pp_done,
          index, chunks_df, gemini_assistant, sap_intents, faiss_ties,
          disk, save_pc, session_state, ret>>

\* Optional values: None, or Some(x) holding x
None == <<>>
Some(x) == <<x>>

(***************************************************************************)
(* Characters and the str methods the code uses                            *)
(***************************************************************************)
SpaceChars == {" ", "\n", "\t"}
ControlChars == {"\n", "\t", "NUL", "DEL"}
Digits == {"0", "1", "2", "3", "4", "5", "6", "7", "8", "9"}
UpperChars == {"A", "B", "C", "D", "E", "F", "G", "H", "I", "J", "K", "L", "M",
               "N", "O", "P", "Q", "R", "S", "T", "U", "V", "W", "X", "Y", "Z"}
LowerChars == {"a", "b", "c", "d", "e", "f", "g", "h", "i", "j", "k", "l", "m",
               "n", "o", "p", "q", "r", "s", "t", "u", "v", "w", "x", "y", "z"}
\* accented lower-case letters: word characters outside [a-z]
AccentedChars == {"a'", "a~", "e'", "e^", "i'", "o'", "o~", "o^", "u'", "c,"}
Alphabet == <<"a", "b", "c", "d", "e", "f", "g", "h", "i", "j", "k", "l", "m",
              "n", "o", "p", "q", "r", "s", "t", "u", "v", "w", "x", "y", "z">>
UpperAlphabet == <<"A", "B", "C", "D", "E", "F", "G", "H", "I", "J", "K", "L", "M",
                   "N", "O", "P", "Q", "R", "S", "T", "U", "V", "W", "X", "Y", "Z">>

IsSpace(c) == c \in SpaceChars
IsControl(c) == c \in ControlChars
IsDigit(c) == c \in Digits
IsUpper(c) == c \in UpperChars
IsLower(c) == c \in LowerChars
IsWordChar(c) == c \in Digits \cup UpperChars \cup LowerChars \cup AccentedChars \cup {"_"}
NotSpace(c) == ~IsSpace(c)

\* str.lower()
LowerChar(c) ==
    IF c \in UpperChars THEN Alphabet[CHOOSE i \in 1..26 : UpperAlphabet[i] = c] ELSE c

Lower(s) == [i \in 1..Len(s) |-> LowerChar(s[i])]
NotControl(c) == ~IsControl(c)

Min(a, b) == IF a <= b THEN a ELSE b
Max(a, b) == IF a >= b THEN a ELSE b

Indices(s) == [i \in 1..Len(s) |-> i]

\* str.strip(): drop leading and trailing whitespace
Strip(s) ==
    LET ns == SelectSeq(Indices(s), LAMBDA i : ~IsSpace(s[i]))
    IN  IF ns = <<>> THEN <<>> ELSE SubSeq(s, ns[1], ns[Len(ns)])

\* the pieces of s between the separator positions cuts (ascending), each
\* separator being width characters wide
PiecesAt(s, cuts, width) ==
    [k \in 1..(Len(cuts) + 1) |->
        SubSeq(s,
               IF k = 1 THEN 1 ELSE cuts[k - 1] + width,
               IF k = Len(cuts) + 1 THEN Len(s) ELSE cuts[k] - 1)]

\* str.split(sep) for a separator of one character (empty pieces are kept)
SplitChar(s, sep) ==
    PiecesAt(s, SelectSeq(Indices(s), LAMBDA i : s[i] = sep), 1)

\* the positions at which str.split('\n\n') cuts: left to right, non-overlapping
\* (from index i on: in a run of line breaks every second one starts a separator)
DoubleNewlineCuts(s, i) ==
    SelectSeq(Indices(s),
        LAMBDA j :
            /\ j >= i /\ j + 1 <= Len(s)
            /\ s[j] = "\n" /\ s[j + 1] = "\n"
            /\ LET r == CHOOSE r \in i..j :
                            /\ \A t \in r..j : s[t] = "\n"
                            /\ (r = i \/ s[r - 1] # "\n")
               IN  (j - r) % 2 = 0)

\* str.split('\n\n')
SplitParagraphs(s) ==
    IF ~(\E i \in 1..(Len(s) - 1) : s[i] = "\n" /\ s[i + 1] = "\n")
    THEN <<s>>
    ELSE PiecesAt(s, DoubleNewlineCuts(s, 1), 2)

\* str.split(): the maximal runs of non-whitespace characters
WordStarts(s) ==
    SelectSeq(Indices(s), LAMBDA i : ~IsSpace(s[i]) /\ (i = 1 \/ IsSpace(s[i - 1])))

WordCount(s) == Len(WordStarts(s))

RECURSIVE JoinWith(_, _)
\* sep.join(parts)
JoinWith(parts, sep) ==
    IF parts = <<>> THEN <<>>
    ELSE IF Len(parts) = 1 THEN parts[1]
    ELSE parts[1] \o sep \o JoinWith(Tail(parts), sep)

NonEmpty(s) == s # <<>>

(***************************************************************************)
(* DocumentPreprocessor                                                    *)
(***************************************************************************)
\* re.sub(r'\s+', ' ', text)
CollapseSpaces(s) ==
    LET kept == SelectSeq(Indices(s),
                          LAMBDA i : ~(IsSpace(s[i]) /\ i > 1 /\ IsSpace(s[i - 1])))
    IN  [k \in 1..Len(kept) |-> IF IsSpace(s[kept[k]]) THEN " " ELSE s[kept[k]]]

\* _clean_text
clean_text(text) == Strip(SelectSeq(CollapseSpaces(text), NotControl))

SentenceEnd == {".", "?", "!"}

\* the whitespace positions at which the sentence regex splits
SentenceCuts(s) ==
    SelectSeq(Indices(s),
        LAMBDA i :
            /\ IsSpace(s[i])
            /\ i >= 2
            /\ s[i - 1] \in SentenceEnd
            /\ ~(i >= 5 /\ IsWordChar(s[i - 4]) /\ s[i - 3] = "."
                        /\ IsWordChar(s[i - 2]) /\ s[i - 1] # "\n")
            /\ ~(i >= 4 /\ IsUpper(s[i - 3]) /\ IsLower(s[i - 2]) /\ s[i - 1] = "."))

StripAll(parts) == [k \in 1..Len(parts) |-> Strip(parts[k])]

\* _split_into_sentences
split_into_sentences(text) ==
    SelectSeq(StripAll(PiecesAt(text, SentenceCuts(text), 1)), NonEmpty)

RECURSIVE OverlapLoopNoBudget(_, _, _, _)
\* the loop taking every sentence, whatever the overlap
OverlapLoopNoBudget(sentences, i, overlap_text, ov) ==
    IF i = 0 THEN overlap_text
    ELSE OverlapLoopNoBudget(sentences, i - 1, sentences[i] \o <<" ">> \o overlap_text, ov)

RECURSIVE OverlapLoop(_, _, _, _)
\* the loop of _get_overlap_sentences over reversed(sentences), from index i down
OverlapLoop(sentences, i, overlap_text, ov) ==
    IF i = 0 THEN overlap_text
    ELSE IF Len(overlap_text) + Len(sentences[i]) <= ov
         THEN OverlapLoop(sentences, i - 1, sentences[i] \o <<" ">> \o overlap_text, ov)
         ELSE overlap_text

\* _get_overlap_sentences
get_overlap_sentences(text, ov) ==
    LET sentences == split_into_sentences(text)
    IN  Strip(OverlapLoop(sentences, Len(sentences), <<>>, ov))

\* one sentence of a paragraph longer than chunk_size; st = [chunks, current_chunk]
SentenceStep(st, sentence, cs, ov) ==
    IF Len(st.current_chunk) + Len(sentence) > cs /\ st.current_chunk # <<>>
    THEN [chunks |-> Append(st.chunks, st.current_chunk),
          current_chunk |-> get_overlap_sentences(st.current_chunk, ov) \o <<" ">> \o sentence]
    ELSE [chunks |-> st.chunks,
          current_chunk |-> st.current_chunk \o <<" ">> \o sentence]

RECURSIVE SentenceLoop(_, _, _, _, _)
SentenceLoop(st, sentences, i, cs, ov) ==
    IF i > Len(sentences) THEN st
    ELSE SentenceLoop(SentenceStep(st, sentences[i], cs, ov), sentences, i + 1, cs, ov)

\* one paragraph of a section
ParagraphStep(st, paragraph, cs, ov) ==
    IF Len(paragraph) > cs
    THEN SentenceLoop(st, split_into_sentences(paragraph), 1, cs, ov)
    ELSE IF Len(st.current_chunk) + Len(paragraph) > cs /\ st.current_chunk # <<>>
         THEN [chunks |-> Append(st.chunks, st.current_chunk),
               current_chunk |-> paragraph]
         ELSE [chunks |-> st.chunks,
               current_chunk |-> st.current_chunk \o <<" ">> \o paragraph]

RECURSIVE ParagraphLoop(_, _, _, _, _)
ParagraphLoop(st, paragraphs, i, cs, ov) ==
    IF i > Len(paragraphs) THEN st
    ELSE ParagraphLoop(ParagraphStep(st, paragraphs[i], cs, ov), paragraphs, i + 1, cs, ov)

\* _split_section_into_chunks
split_section_into_chunks(text, cs, ov) ==
    LET paragraphs == SelectSeq(StripAll(SplitParagraphs(text)), NonEmpty)
        st == ParagraphLoop([chunks |-> <<>>, current_chunk |-> <<>>], paragraphs, 1, cs, ov)
    IN  IF st.current_chunk # <<>> THEN Append(st.chunks, st.current_chunk)
        ELSE st.chunks

\* the last index of the maximal run of characters of class that starts at
\* index i of s (i - 1 when s[i] is not of the class)
RunEnd(s, i, class) ==
    CHOOSE j \in (i - 1)..Len(s) :
        /\ \A t \in i..j : s[t] \in class
        /\ (j = Len(s) \/ s[j + 1] \notin class)

\* (?:\.\d+)* from index i: the index of the last character matched
RECURSIVE DotDigitsEnd(_, _)
DotDigitsEnd(s, i) ==
    IF i + 1 <= Len(s) /\ s[i] = "." /\ IsDigit(s[i + 1])
    THEN DotDigitsEnd(s, RunEnd(s, i + 1, Digits) + 1)
    ELSE i - 1

\* \s+[^\n]+ matches from index i to the end of the line
SpaceThenRest(s, i) ==
    /\ i + 1 <= Len(s)
    /\ IsSpace(s[i])
    /\ \A t \in (i + 1)..Len(s) : s[t] # "\n"

\* re.match(r'(\d+\.\d+(?:\.\d+)*\s+[^\n]+)', line): 0 or the end of group 1
MatchNumbered(line) ==
    LET d1 == RunEnd(line, 1, Digits)
        d2 == IF d1 >= 1 /\ d1 + 2 <= Len(line) /\ line[d1 + 1] = "."
              THEN RunEnd(line, d1 + 2, Digits) ELSE 0
        d3 == IF d2 >= d1 + 2 THEN DotDigitsEnd(line, d2 + 1) ELSE 0
    IN  IF d3 > 0 /\ SpaceThenRest(line, d3 + 1) THEN Len(line) ELSE 0

\* re.match(r'(##+\s+[^\n]+)', line): 0 or the end of group 1
MatchMarkdown(line) ==
    LET h == RunEnd(line, 1, {"#"})
    IN  IF h >= 2 /\ SpaceThenRest(line, h + 1) THEN Len(line) ELSE 0

FunctionWord == <<"f", "u", "n", "c", "t", "i", "o", "n">>

\* [A-Z][a-z]+ from index i: the index of its last character, or 0
CapWordEnd(s, i) ==
    IF i + 1 <= Len(s) /\ IsUpper(s[i]) /\ IsLower(s[i + 1])
    THEN RunEnd(s, i + 1, LowerChars) ELSE 0

\* (?:\s+[A-Z][a-z]+)*\s+function after a capitalised word ending at e
RECURSIVE CapWordsThenFunction(_, _)
CapWordsThenFunction(s, e) ==
    LET w == RunEnd(s, e + 1, SpaceChars)
        n == CapWordEnd(s, w + 1)
    IN  IF w < e + 1 THEN 0
        ELSE IF n > 0 /\ CapWordsThenFunction(s, n) > 0 THEN CapWordsThenFunction(s, n)
        ELSE IF w + 8 <= Len(s) /\ SubSeq(s, w + 1, w + 8) = FunctionWord THEN w + 8
        ELSE 0

\* re.match(r'([A-Z][a-z]+(?:\s+[A-Z][a-z]+)*\s+function)', line): 0 or the end of group 1
MatchFunctionTitle(line) ==
    LET e == CapWordEnd(line, 1)
    IN  IF e = 0 THEN 0 ELSE CapWordsThenFunction(line, e)

\* the first pattern of the list that matches decides: 0 or the end of group 1
HeadingEnd(line) ==
    IF MatchNumbered(line) > 0 THEN MatchNumbered(line)
    ELSE IF MatchMarkdown(line) > 0 THEN MatchMarkdown(line)
    ELSE MatchFunctionTitle(line)

Introducao == <<"I", "n", "t", "r", "o", "d", "u", "c,", "a~", "o">>

Newline == <<"\n">>

\* one line of the loop of _split_into_sections;
\* st = [sections, current_section, current_content]
SectionStep(st, raw) ==
    LET line == Strip(raw)
        is_section == HeadingEnd(line) > 0
        section_name == IF is_section THEN Strip(SubSeq(line, 1, HeadingEnd(line)))
                        ELSE st.current_section
    IN  IF line = <<>> THEN st
        ELSE IF is_section /\ st.current_content # <<>>
        THEN [sections |-> Append(st.sections,
                                  <<st.current_section, JoinWith(st.current_content, Newline)>>),
              current_section |-> section_name,
              current_content |-> <<line>>]
        ELSE [st EXCEPT !.current_content = Append(@, line)]

RECURSIVE SectionLoop(_, _, _)
SectionLoop(st, lines, i) ==
    IF i > Len(lines) THEN st
    ELSE SectionLoop(SectionStep(st, lines[i]), lines, i + 1)

\* _split_into_sections: a sequence of <<section name, section text>>
split_into_sections(text) ==
    LET st == SectionLoop([sections |-> <<>>, current_section |-> Introducao,
                           current_content |-> <<>>],
                          SplitChar(text, "\n"), 1)
    IN  IF st.current_content # <<>>
        THEN Append(st.sections, <<st.current_section, JoinWith(st.current_content, Newline)>>)
        ELSE st.sections

\* the chunks of every section, in order, each tagged with its section name
RECURSIVE SectionChunks(_, _, _, _)
SectionChunks(sections, i, cs, ov) ==
    IF i > Len(sections) THEN <<>>
    ELSE LET section_chunks == split_section_into_chunks(sections[i][2], cs, ov)
         IN  [k \in 1..Len(section_chunks) |->
                 [section |-> sections[i][1], chunk_text |-> section_chunks[k]]]
             \o SectionChunks(sections, i + 1, cs, ov)

MinChunkChars == 100

\* "if len(chunk_text.strip()) > 100"
IsSignificant(c) == Len(Strip(c.chunk_text)) > MinChunkChars

\* the row appended for a significant chunk, chunk_id being the counter's value
ChunkRow(c, chunk_id) ==
    [chunk_id |-> chunk_id,
     text |-> Strip(c.chunk_text),
     section |-> c.section,
     char_count |-> Len(c.chunk_text),
     word_count |-> WordCount(c.chunk_text)]

RECURSIVE ChunkLoopCountsAll(_, _, _, _)
\* the loop with the counter advanced for every chunk, kept or not
ChunkLoopCountsAll(cands, i, all_chunks, chunk_id) ==
    IF i > Len(cands) THEN all_chunks
    ELSE IF IsSignificant(cands[i])
         THEN ChunkLoopCountsAll(cands, i + 1,
                                 Append(all_chunks, ChunkRow(cands[i], chunk_id)),
                                 chunk_id + 1)
         ELSE ChunkLoopCountsAll(cands, i + 1, all_chunks, chunk_id + 1)

RECURSIVE ChunkLoop(_, _, _, _)
\* the loop of process_document over the chunks: chunk_id counts the rows appended
ChunkLoop(cands, i, all_chunks, chunk_id) ==
    IF i > Len(cands) THEN all_chunks
    ELSE IF IsSignificant(cands[i])
         THEN ChunkLoop(cands, i + 1, Append(all_chunks, ChunkRow(cands[i], chunk_id)),
                        chunk_id + 1)
         ELSE ChunkLoop(cands, i + 1, all_chunks, chunk_id)

\* process_document on the text read from the file: the rows of the DataFrame
process_document(text, cs, ov) ==
    ChunkLoop(SectionChunks(split_into_sections(clean_text(text)), 1, cs, ov), 1, <<>>, 0)

(***************************************************************************)
(* IntentClassifier                                                        *)
(***************************************************************************)
\* self.intent_patterns: for each intent its regular expressions, in order; a
\* pattern "(a|b).*(c|d)" is the sequence of its groups of alternatives
intent_patterns ==
    [conditional_logic |-> <<
        \* (como|usar).*(condi??o|condicional|se|caso|if)
        [anchored |-> FALSE, boundary |-> FALSE, groups |-> <<
           {
             <<"c", "o", "m", "o">>, <<"u", "s", "a", "r">>},
           {
             <<"c", "o", "n", "d", "i", "c,", "a~", "o">>,
             <<"c", "o", "n", "d", "i", "c", "i", "o", "n", "a", "l">>, <<"s", "e">>,
             <<"c", "a", "s", "o">>, <<"i", "f">>}>>],
        \* (transforma??o|transformar).*(condicional)
        [anchored |-> FALSE, boundary |-> FALSE, groups |-> <<
           {
             <<"t", "r", "a", "n", "s", "f", "o", "r", "m", "a", "c,", "a~", "o">>,
             <<"t", "r", "a", "n", "s", "f", "o", "r", "m", "a", "r">>},
           {
             <<"c", "o", "n", "d", "i", "c", "i", "o", "n", "a", "l">>}>>],
        \* (quando|se).*(ent?o|then)
        [anchored |-> FALSE, boundary |-> FALSE, groups |-> <<
           {
             <<"q", "u", "a", "n", "d", "o">>, <<"s", "e">>},
           {
             <<"e", "n", "t", "a~", "o">>, <<"t", "h", "e", "n">>}>>],
        \* (m?ltiplas|v?rias).*(condi??es)
        [anchored |-> FALSE, boundary |-> FALSE, groups |-> <<
           {
             <<"m", "u'", "l", "t", "i", "p", "l", "a", "s">>, <<"v", "a'", "r", "i", "a", "s">>},
           {
             <<"c", "o", "n", "d", "i", "c,", "o~", "e", "s">>}>>]
     >>,
     data_lookup |-> <<
        \* (como|usar).*(buscar|procurar|lookup|refer?ncia)
        [anchored |-> FALSE, boundary |-> FALSE, groups |-> <<
           {
             <<"c", "o", "m", "o">>, <<"u", "s", "a", "r">>},
           {
             <<"b", "u", "s", "c", "a", "r">>, <<"p", "r", "o", "c", "u", "r", "a", "r">>,
             <<"l", "o", "o", "k", "u", "p">>,
             <<"r", "e", "f", "e", "r", "e^", "n", "c", "i", "a">>}>>],
        \* (tabela).*(refer?ncia|lookup)
        [anchored |-> FALSE, boundary |-> FALSE, groups |-> <<
           {
             <<"t", "a", "b", "e", "l", "a">>},
           {
             <<"r", "e", "f", "e", "r", "e^", "n", "c", "i", "a">>,
             <<"l", "o", "o", "k", "u", "p">>}>>],
        \* (join|jun??o)
        [anchored |-> FALSE, boundary |-> FALSE, groups |-> <<
           {
             <<"j", "o", "i", "n">>, <<"j", "u", "n", "c,", "a~", "o">>}>>],
        \* (relacionar|associar).*(dados)
        [anchored |-> FALSE, boundary |-> FALSE, groups |-> <<
           {
             <<"r", "e", "l", "a", "c", "i", "o", "n", "a", "r">>,
             <<"a", "s", "s", "o", "c", "i", "a", "r">>},
           {
             <<"d", "a", "d", "o", "s">>}>>]
     >>,
     data_validation |-> <<
        \* (como|usar).*(validar)
        [anchored |-> FALSE, boundary |-> FALSE, groups |-> <<
           {
             <<"c", "o", "m", "o">>, <<"u", "s", "a", "r">>},
           {
             <<"v", "a", "l", "i", "d", "a", "r">>}>>],
        \* (verificar|checar).*(dados)
        [anchored |-> FALSE, boundary |-> FALSE, groups |-> <<
           {
             <<"v", "e", "r", "i", "f", "i", "c", "a", "r">>, <<"c", "h", "e", "c", "a", "r">>},
           {
             <<"d", "a", "d", "o", "s">>}>>],
        \* (qualidade).*(dados)
        [anchored |-> FALSE, boundary |-> FALSE, groups |-> <<
           {
             <<"q", "u", "a", "l", "i", "d", "a", "d", "e">>},
           {
             <<"d", "a", "d", "o", "s">>}>>],
        \* (erro|inv?lido).*(dados)
        [anchored |-> FALSE, boundary |-> FALSE, groups |-> <<
           {
             <<"e", "r", "r", "o">>, <<"i", "n", "v", "a'", "l", "i", "d", "o">>},
           {
             <<"d", "a", "d", "o", "s">>}>>]
     >>,
     string_operations |-> <<
        \* (como|usar).*(texto|string|cadeia)
        [anchored |-> FALSE, boundary |-> FALSE, groups |-> <<
           {
             <<"c", "o", "m", "o">>, <<"u", "s", "a", "r">>},
           {
             <<"t", "e", "x", "t", "o">>, <<"s", "t", "r", "i", "n", "g">>,
             <<"c", "a", "d", "e", "i", "a">>}>>],
        \* (manipular|transformar).*(texto|string)
        [anchored |-> FALSE, boundary |-> FALSE, groups |-> <<
           {
             <<"m", "a", "n", "i", "p", "u", "l", "a", "r">>,
             <<"t", "r", "a", "n", "s", "f", "o", "r", "m", "a", "r">>},
           {
             <<"t", "e", "x", "t", "o">>, <<"s", "t", "r", "i", "n", "g">>}>>],
        \* (concatenar|juntar).*(texto)
        [anchored |-> FALSE, boundary |-> FALSE, groups |-> <<
           {
             <<"c", "o", "n", "c", "a", "t", "e", "n", "a", "r">>,
             <<"j", "u", "n", "t", "a", "r">>},
           {
             <<"t", "e", "x", "t", "o">>}>>],
        \* (extrair).*(texto)
        [anchored |-> FALSE, boundary |-> FALSE, groups |-> <<
           {
             <<"e", "x", "t", "r", "a", "i", "r">>},
           {
             <<"t", "e", "x", "t", "o">>}>>]
     >>,
     date_operations |-> <<
        \* (como|usar).*(data|datahora|timestamp)
        [anchored |-> FALSE, boundary |-> FALSE, groups |-> <<
           {
             <<"c", "o", "m", "o">>, <<"u", "s", "a", "r">>},
           {
             <<"d", "a", "t", "a">>, <<"d", "a", "t", "a", "h", "o", "r", "a">>,
             <<"t", "i", "m", "e", "s", "t", "a", "m", "p">>}>>],
        \* (calcular|somar|subtrair).*(data)
        [anchored |-> FALSE, boundary |-> FALSE, groups |-> <<
           {
             <<"c", "a", "l", "c", "u", "l", "a", "r">>, <<"s", "o", "m", "a", "r">>,
             <<"s", "u", "b", "t", "r", "a", "i", "r">>},
           {
             <<"d", "a", "t", "a">>}>>],
        \* (formatar).*(data)
        [anchored |-> FALSE, boundary |-> FALSE, groups |-> <<
           {
             <<"f", "o", "r", "m", "a", "t", "a", "r">>},
           {
             <<"d", "a", "t", "a">>}>>],
        \* (data).*(hoje|atual|sistema)
        [anchored |-> FALSE, boundary |-> FALSE, groups |-> <<
           {
             <<"d", "a", "t", "a">>},
           {
             <<"h", "o", "j", "e">>, <<"a", "t", "u", "a", "l">>,
             <<"s", "i", "s", "t", "e", "m", "a">>}>>]
     >>,
     aggregation |-> <<
        \* (como|usar).*(somar|m?dia|contar)
        [anchored |-> FALSE, boundary |-> FALSE, groups |-> <<
           {
             <<"c", "o", "m", "o">>, <<"u", "s", "a", "r">>},
           {
             <<"s", "o", "m", "a", "r">>, <<"m", "e'", "d", "i", "a">>,
             <<"c", "o", "n", "t", "a", "r">>}>>],
        \* (agrega??o|agrupar)
        [anchored |-> FALSE, boundary |-> FALSE, groups |-> <<
           {
             <<"a", "g", "r", "e", "g", "a", "c,", "a~", "o">>,
             <<"a", "g", "r", "u", "p", "a", "r">>}>>],
        \* (soma|total|m?dia|contagem)
        [anchored |-> FALSE, boundary |-> FALSE, groups |-> <<
           {
             <<"s", "o", "m", "a">>, <<"t", "o", "t", "a", "l">>, <<"m", "e'", "d", "i", "a">>,
             <<"c", "o", "n", "t", "a", "g", "e", "m">>}>>]
     >>,
     small_talk |-> <<
        \* ^(oi|ol?|ola|bom dia|boa tarde|boa noite)\b
        [anchored |-> TRUE, boundary |-> TRUE, groups |-> <<
           {
             <<"o", "i">>, <<"o", "l", "a'">>, <<"o", "l", "a">>,
             <<"b", "o", "m", " ", "d", "i", "a">>,
             <<"b", "o", "a", " ", "t", "a", "r", "d", "e">>,
             <<"b", "o", "a", " ", "n", "o", "i", "t", "e">>}>>],
        \* (quem ? voc?|quem ? voce)
        [anchored |-> FALSE, boundary |-> FALSE, groups |-> <<
           {
             <<"q", "u", "e", "m", " ", "e'", " ", "v", "o", "c", "e^">>,
             <<"q", "u", "e", "m", " ", "e'", " ", "v", "o", "c", "e">>}>>],
        \* (qual seu nome)
        [anchored |-> FALSE, boundary |-> FALSE, groups |-> <<
           {
             <<"q", "u", "a", "l", " ", "s", "e", "u", " ", "n", "o", "m", "e">>}>>],
        \* (fale sobre voc?|sobre voce)
        [anchored |-> FALSE, boundary |-> FALSE, groups |-> <<
           {
             <<"f", "a", "l", "e", " ", "s", "o", "b", "r", "e", " ", "v", "o", "c", "e^">>,
             <<"s", "o", "b", "r", "e", " ", "v", "o", "c", "e">>}>>],
        \* (voc? ? um bot|voce ? um bot)
        [anchored |-> FALSE, boundary |-> FALSE, groups |-> <<
           {
             <<"v", "o", "c", "e^", " ", "e'", " ", "u", "m", " ", "b", "o", "t">>,
             <<"v", "o", "c", "e", " ", "e'", " ", "u", "m", " ", "b", "o", "t">>}>>],
        \* (voc? ? o gemini|voce ? o gemini)
        [anchored |-> FALSE, boundary |-> FALSE, groups |-> <<
           {
             <<"v", "o", "c", "e^", " ", "e'", " ", "o", " ", "g", "e", "m", "i", "n", "i">>,
             <<"v", "o", "c", "e", " ", "e'", " ", "o", " ", "g", "e", "m", "i", "n", "i">>}>>],
        \* (como voc? funciona|como voce funciona)
        [anchored |-> FALSE, boundary |-> FALSE, groups |-> <<
           {
             <<"c", "o", "m", "o", " ", "v", "o", "c", "e^", " ", "f", "u", "n", "c", "i", "o", "n", "a">>,
             <<"c", "o", "m", "o", " ", "v", "o", "c", "e", " ", "f", "u", "n", "c", "i", "o", "n", "a">>}>>],
        \* (conte algo|me conte algo)
        [anchored |-> FALSE, boundary |-> FALSE, groups |-> <<
           {
             <<"c", "o", "n", "t", "e", " ", "a", "l", "g", "o">>,
             <<"m", "e", " ", "c", "o", "n", "t", "e", " ", "a", "l", "g", "o">>}>>],
        \* (piada|hist?ria)
        [anchored |-> FALSE, boundary |-> FALSE, groups |-> <<
           {
             <<"p", "i", "a", "d", "a">>, <<"h", "i", "s", "t", "o'", "r", "i", "a">>}>>]
     >>,
     general_non_technical |-> <<
        \* (dormir|sono|ins?nia|ins?nia)
        [anchored |-> FALSE, boundary |-> FALSE, groups |-> <<
           {
             <<"d", "o", "r", "m", "i", "r">>, <<"s", "o", "n", "o">>,
             <<"i", "n", "s", "o^", "n", "i", "a">>}>>],
        \* (sa?de|bem estar)
        [anchored |-> FALSE, boundary |-> FALSE, groups |-> <<
           {
             <<"s", "a", "u'", "d", "e">>, <<"b", "e", "m", " ", "e", "s", "t", "a", "r">>}>>],
        \* (receita|cozinhar)
        [anchored |-> FALSE, boundary |-> FALSE, groups |-> <<
           {
             <<"r", "e", "c", "e", "i", "t", "a">>, <<"c", "o", "z", "i", "n", "h", "a", "r">>}>>],
        \* (temperatura do modelo|temperatura)
        [anchored |-> FALSE, boundary |-> FALSE, groups |-> <<
           {
             <<"t", "e", "m", "p", "e", "r", "a", "t", "u", "r", "a", " ", "d", "o", " ", "m", "o", "d", "e", "l", "o">>,
             <<"t", "e", "m", "p", "e", "r", "a", "t", "u", "r", "a">>}>>],
        \* (clima|previs?o do tempo)
        [anchored |-> FALSE, boundary |-> FALSE, groups |-> <<
           {
             <<"c", "l", "i", "m", "a">>,
             <<"p", "r", "e", "v", "i", "s", "a~", "o", " ", "d", "o", " ", "t", "e", "m", "p", "o">>}>>],
        \* (motiva??o|carreira|estudo|vida)
        [anchored |-> FALSE, boundary |-> FALSE, groups |-> <<
           {
             <<"m", "o", "t", "i", "v", "a", "c,", "a~", "o">>,
             <<"c", "a", "r", "r", "e", "i", "r", "a">>, <<"e", "s", "t", "u", "d", "o">>,
             <<"v", "i", "d", "a">>}>>]
     >>]

\* self.function_mapping
function_mapping ==
    [conditional_logic |-> <<
        <<"d", "e", "c", "o", "d", "e">>, <<"i", "f", "t", "h", "e", "n", "e", "l", "s", "e">>,
        <<"c", "a", "s", "e">>>>,
     data_lookup |-> <<
        <<"l", "o", "o", "k", "u", "p">>, <<"l", "o", "o", "k", "u", "p", "_", "e", "x", "t">>,
        <<"l", "o", "o", "k", "u", "p", "_", "s", "e", "q">>, <<"j", "o", "i", "n">>>>,
     data_validation |-> <<
        <<"i", "s", "_", "v", "a", "l", "i", "d">>,
        <<"i", "s", "_", "n", "u", "m", "b", "e", "r">>, <<"i", "s", "_", "d", "a", "t", "e">>,
        <<"m", "a", "t", "c", "h", "_", "p", "a", "t", "t", "e", "r", "n">>>>,
     string_operations |-> <<
        <<"s", "u", "b", "s", "t", "r">>, <<"c", "o", "n", "c", "a", "t">>,
        <<"l", "o", "w", "e", "r">>, <<"u", "p", "p", "e", "r">>, <<"t", "r", "i", "m">>,
        <<"r", "e", "p", "l", "a", "c", "e">>>>,
     date_operations |-> <<
        <<"a", "d", "d", "_", "d", "a", "y", "s">>,
        <<"d", "a", "t", "e", "_", "d", "i", "f", "f">>, <<"t", "o", "_", "d", "a", "t", "e">>,
        <<"s", "y", "s", "d", "a", "t", "e">>>>,
     aggregation |-> <<
        <<"s", "u", "m">>, <<"a", "v", "g">>, <<"c", "o", "u", "n", "t">>, <<"m", "i", "n">>,
        <<"m", "a", "x">>>>]


\* the members of the set self.sap_intents
sap_intent_names ==
    {"conditional_logic", "data_lookup", "data_validation",
     "string_operations", "date_operations", "aggregation"}

\* word w occurs in s at index i
WordAt(s, w, i) ==
    /\ i + Len(w) - 1 <= Len(s)
    /\ s[i] = w[1]
    /\ SubSeq(s, i, i + Len(w) - 1) = w

RECURSIVE GroupsMatch(_, _, _, _)
\* groups gi.. of pattern p match in s, group gi starting at one of the indices
\* from from on ('.' does not match a newline; an anchored first group starts at 1)
GroupsMatch(s, p, gi, from) ==
    \E w \in p.groups[gi] :
        \E i \in (IF gi = 1 /\ p.anchored THEN {1} ELSE from..Len(s)) :
            /\ WordAt(s, w, i)
            /\ (gi > 1 => \A t \in from..(i - 1) : s[t] # "\n")
            /\ IF gi = Len(p.groups)
               THEN (p.boundary =>
                        (i + Len(w) > Len(s) \/ ~IsWordChar(s[i + Len(w)])))
               ELSE GroupsMatch(s, p, gi + 1, i + Len(w))

\* re.search(pattern, s)
re_search(p, s) == GroupsMatch(s, p, 1, 1)

AnyPatternMatches(intent, s) ==
    \E j \in 1..Len(intent_patterns[intent]) : re_search(intent_patterns[intent][j], s)

\* the loop ending in the intent general_search when nothing matched
RECURSIVE SapIntentLoopGeneralSearch(_, _, _)
SapIntentLoopGeneralSearch(order, i, query_lower) ==
    IF i > Len(order) THEN [intent |-> "general_search", functions |-> <<>>]
    ELSE IF AnyPatternMatches(order[i], query_lower)
         THEN [intent |-> order[i], functions |-> function_mapping[order[i]]]
         ELSE SapIntentLoopGeneralSearch(order, i + 1, query_lower)

\* the loop "for intent in self.sap_intents" over the set in its iteration order
RECURSIVE SapIntentLoop(_, _, _)
SapIntentLoop(order, i, query_lower) ==
    IF i > Len(order) THEN [intent |-> "general_non_technical", functions |-> <<>>]
    ELSE IF AnyPatternMatches(order[i], query_lower)
         THEN [intent |-> order[i], functions |-> function_mapping[order[i]]]
         ELSE SapIntentLoop(order, i + 1, query_lower)

\* classify_intent; order is the iteration order of the set self.sap_intents
classify_intent(query, order) ==
    LET query_lower == Lower(query)
    IN  IF AnyPatternMatches("small_talk", query_lower)
        THEN [intent |-> "small_talk", functions |-> <<>>]
        ELSE IF AnyPatternMatches("general_non_technical", query_lower)
        THEN [intent |-> "general_non_technical", functions |-> <<>>]
        ELSE SapIntentLoop(order, 1, query_lower)

\* get_search_terms without the test of the intent
get_search_terms_any_intent(query, order) ==
    <<query>> \o classify_intent(query, order).functions

\* get_search_terms giving the recommended functions without the query
get_search_terms_functions_only(query, order) ==
    LET c == classify_intent(query, order)
    IN  IF c.intent \notin sap_intent_names THEN <<>>
        ELSE c.functions

\* get_search_terms
get_search_terms(query, order) ==
    LET c == classify_intent(query, order)
    IN  IF c.intent \notin sap_intent_names THEN <<>>
        ELSE <<query>> \o c.functions

(***************************************************************************)
(* EnhancedEmbeddingManager: the embedding model and the FAISS index       *)
(***************************************************************************)
\* self.model.encode(text, normalize_embeddings=True): the embedding of a text,
\* here the set of letters and digits the text uses
Encode(text) ==
    {LowerChar(text[i]) : i \in 1..Len(text)} \cap (LowerChars \cup AccentedChars \cup Digits)

\* inner product of two normalised embeddings, in hundredths (1.0 is 100)
InnerProduct(a, b) ==
    IF a \cup b = {} THEN 0
    ELSE (100 * Cardinality(a \cap b)) \div Cardinality(a \cup b)

\* the similarity index.search reports beside the label -1 of a missing neighbour
PadSimilarity == -1000000

\* index.search(query_embedding, k_search) on the vectors vecs: the k_search
\* nearest neighbours by inner product, best first, as (idx, similarity); the
\* order of equal similarities is the library's (ties), missing neighbours are -1
index_search(vecs, qe, k_search, ties) ==
    LET sim(a) == InnerProduct(qe, vecs[a])
        Before(a, b) == \/ sim(a) > sim(b)
                        \/ sim(a) = sim(b) /\ (IF ties = "asc" THEN a < b ELSE a > b)
    IN  [j \in 1..k_search |->
            IF j <= Len(vecs)
            THEN LET a == CHOOSE a \in 1..Len(vecs) :
                              Cardinality({b \in 1..Len(vecs) : Before(b, a)}) = j - 1
                 IN  [idx |-> a - 1, similarity |-> sim(a)]
            ELSE [idx |-> -1, similarity |-> PadSimilarity]]

\* sorted(results, key=lambda x: x['similarity'], reverse=True): a stable sort
SortBySimilarity(results) ==
    LET Before(i, j) == \/ results[i].similarity > results[j].similarity
                        \/ results[i].similarity = results[j].similarity /\ i < j
    IN  [p \in 1..Len(results) |->
            results[CHOOSE i \in 1..Len(results) :
                        Cardinality({j \in 1..Len(results) : Before(j, i)}) = p - 1]]

\* chunks_df.row(idx, named=True)
DfRow(rows, idx) == IF idx >= 0 THEN rows[idx + 1] ELSE rows[Len(rows) + idx + 1]

\* the loop body without the test of the similarity
HitStepNoThreshold(st, hit, rows, query, k, min_similarity) ==
    IF /\ hit.idx < Len(rows)
       /\ Len(st.results) < k
       /\ DfRow(rows, hit.idx).chunk_id \notin st.seen_chunks
    THEN LET row == DfRow(rows, hit.idx)
         IN  [results |-> Append(st.results,
                                 [text |-> row.text,
                                  chunk_id |-> row.chunk_id,
                                  section |-> row.section,
                                  similarity |-> hit.similarity,
                                  search_term |-> query]),
              seen_chunks |-> st.seen_chunks \cup {row.chunk_id}]
    ELSE st

\* one neighbour of the loop of search_single; st = [results, seen_chunks]
HitStep(st, hit, rows, query, k, min_similarity) ==
    IF /\ hit.idx < Len(rows)
       /\ hit.similarity >= min_similarity
       /\ Len(st.results) < k
       /\ DfRow(rows, hit.idx).chunk_id \notin st.seen_chunks
    THEN LET row == DfRow(rows, hit.idx)
         IN  [results |-> Append(st.results,
                                 [text |-> row.text,
                                  chunk_id |-> row.chunk_id,
                                  section |-> row.section,
                                  similarity |-> hit.similarity,
                                  search_term |-> query]),
              seen_chunks |-> st.seen_chunks \cup {row.chunk_id}]
    ELSE st

RECURSIVE HitLoop(_, _, _, _, _, _, _)
HitLoop(st, hits, i, rows, query, k, min_similarity) ==
    IF i > Len(hits) THEN st
    ELSE HitLoop(HitStep(st, hits[i], rows, query, k, min_similarity),
                 hits, i + 1, rows, query, k, min_similarity)

Raised(error) == [status |-> "raised", error |-> error, results |-> <<>>]
Returned(results) == [status |-> "ok", error |-> "", results |-> results]

\* search_single without the test of the index: no index, no neighbours
search_single_unchecked(query, k, min_similarity, idx, df, ties) ==
    IF idx = None \/ df = None THEN Returned(<<>>)
    ELSE LET rows == df[1]
             k_search == Min(k * 2, Len(rows))
             hits == index_search(idx[1], Encode(query), k_search, ties)
             st == HitLoop([results |-> <<>>, seen_chunks |-> {}], hits, 1,
                           rows, query, k, min_similarity)
         IN  IF k_search <= 0 THEN Raised("AssertionError")
             ELSE Returned(SortBySimilarity(st.results))

\* search_single(query, k, min_similarity) on a manager holding idx and df
search_single(query, k, min_similarity, idx, df, ties) ==
    IF idx = None THEN Raised("ValueError")
    ELSE IF df = None THEN Raised("TypeError")
    ELSE LET rows == df[1]
             k_search == Min(k * 2, Len(rows))
             hits == index_search(idx[1], Encode(query), k_search, ties)
             st == HitLoop([results |-> <<>>, seen_chunks |-> {}], hits, 1,
                           rows, query, k, min_similarity)
         IN  IF k_search <= 0 THEN Raised("AssertionError")
             ELSE Returned(SortBySimilarity(st.results))

(***************************************************************************)
(* GeminiAssistant                                                         *)
(***************************************************************************)
\* what self.model.generate(...) can do: raise, return nothing usable, or
\* return candidates whose first output is the given text
GeneratorBehaviours ==
    {[kind |-> "raise", output |-> <<>>],
     [kind |-> "no_candidates", output |-> <<>>],
     [kind |-> "candidates", output |-> <<>>],
     [kind |-> "candidates", output |-> <<" ", "\n">>],
     [kind |-> "candidates", output |-> <<" ", "U", "s", "e", " ", "l", "o", "o", "k", "u", "p", ".", "\n">>]}

\* generate_natural_response without the test for an empty text
generate_natural_response_unchecked(user_query, search_results, gen) ==
    IF gen.kind = "candidates" THEN Some(Strip(gen.output)) ELSE None

\* generate_natural_response: None, or Some(text) for a non-empty stripped text
generate_natural_response(user_query, search_results, gen) ==
    IF gen.kind = "candidates" /\ Strip(gen.output) # <<>>
    THEN Some(Strip(gen.output))
    ELSE None

(***************************************************************************)
(* EnhancedEmbeddingManager.search_intelligent                             *)
(***************************************************************************)
\* the slice that cuts nothing
PrefixWhole(lst, n) == lst

\* lst[:n]
Prefix(lst, n) ==
    IF n >= 0 THEN SubSeq(lst, 1, Min(n, Len(lst)))
    ELSE SubSeq(lst, 1, Max(0, Len(lst) + n))

MaxSearchTerms == 3
TermK == 2
TermMinSimilarity == 15

RECURSIVE TermLoop(_, _, _, _, _, _)
\* the loop over search_terms[:3]: the calls of search_single made, the results
\* gathered in all_results, and the error of the call that raised, if one did
TermLoop(terms, i, acc, idx, df, ties) ==
    IF i > Len(terms) THEN acc
    ELSE LET r == search_single(terms[i], TermK, TermMinSimilarity, idx, df, ties)
             call == [term |-> terms[i], k |-> TermK, min_similarity |-> TermMinSimilarity,
                      status |-> r.status, results |-> r.results]
         IN  IF r.status = "raised"
             THEN [acc EXCEPT !.calls = Append(@, call), !.status = "raised",
                              !.error = r.error]
             ELSE TermLoop(terms, i + 1,
                           [acc EXCEPT !.calls = Append(@, call),
                                       !.all_results = @ \o r.results],
                           idx, df, ties)

\* position of chunk_id among the values of the dict unique_results, or 0
PositionOf(unique, chunk_id) ==
    IF \E p \in 1..Len(unique) : unique[p].chunk_id = chunk_id
    THEN CHOOSE p \in 1..Len(unique) : unique[p].chunk_id = chunk_id
    ELSE 0

\* the de-duplication keeping the first entry seen of a chunk_id
DedupStepFirstWins(unique, result) ==
    IF PositionOf(unique, result.chunk_id) = 0 THEN Append(unique, result)
    ELSE unique

\* one result of the de-duplication loop; unique is unique_results.values()
DedupStep(unique, result) ==
    LET p == PositionOf(unique, result.chunk_id)
    IN  IF p = 0 THEN Append(unique, result)
        ELSE IF result.similarity > unique[p].similarity
             THEN [unique EXCEPT ![p] = result]
             ELSE unique

RECURSIVE DedupLoop(_, _, _)
DedupLoop(unique, all_results, i) ==
    IF i > Len(all_results) THEN unique
    ELSE DedupLoop(DedupStep(unique, all_results[i]), all_results, i + 1)

\* the truncation without the sort
FinalResultsUnsorted(all_results, k) ==
    Prefix(DedupLoop(<<>>, all_results, 1), k)

\* sorted(unique_results.values(), ...)[:k]
FinalResults(all_results, k) ==
    Prefix(SortBySimilarity(DedupLoop(<<>>, all_results, 1)), k)

\* search_intelligent calling the generator on an empty results list too
search_intelligent_generates_on_empty(user_query, k, gen, idx, df, has_gemini, order, ties) ==
    LET c == classify_intent(user_query, order)
        search_terms == get_search_terms(user_query, order)
        t == TermLoop(Prefix(search_terms, MaxSearchTerms), 1,
                      [calls |-> <<>>, all_results |-> <<>>, status |-> "ok", error |-> ""],
                      idx, df, ties)
        final_results == FinalResults(t.all_results, k)
        called == has_gemini
        natural_response == IF called
                            THEN generate_natural_response(user_query, final_results, gen)
                            ELSE None
    IN  IF t.status = "raised"
        THEN [status |-> "raised", error |-> t.error, calls |-> t.calls,
              generator_calls |-> <<>>, intent |-> c.intent,
              recommended_functions |-> <<>>, search_terms_used |-> <<>>,
              results |-> <<>>, natural_response |-> None, gemini_used |-> FALSE]
        ELSE [status |-> "ok", error |-> "", calls |-> t.calls,
              generator_calls |-> IF called
                                  THEN <<[query |-> user_query, results |-> final_results,
                                          behaviour |-> gen]>>
                                  ELSE <<>>,
              intent |-> c.intent,
              recommended_functions |-> c.functions,
              search_terms_used |-> Prefix(search_terms, MaxSearchTerms),
              results |-> final_results,
              natural_response |-> natural_response,
              gemini_used |-> natural_response # None]

\* search_intelligent(user_query, k) on a manager holding idx and df, with or
\* without a generator (has_gemini) that behaves as gen when it is called
search_intelligent(user_query, k, gen, idx, df, has_gemini, order, ties) ==
    LET c == classify_intent(user_query, order)
        search_terms == get_search_terms(user_query, order)
        t == TermLoop(Prefix(search_terms, MaxSearchTerms), 1,
                      [calls |-> <<>>, all_results |-> <<>>, status |-> "ok", error |-> ""],
                      idx, df, ties)
        final_results == FinalResults(t.all_results, k)
        called == has_gemini /\ final_results # <<>>
        natural_response == IF called
                            THEN generate_natural_response(user_query, final_results, gen)
                            ELSE None
    IN  IF t.status = "raised"
        THEN [status |-> "raised", error |-> t.error, calls |-> t.calls,
              generator_calls |-> <<>>, intent |-> c.intent,
              recommended_functions |-> <<>>, search_terms_used |-> <<>>,
              results |-> <<>>, natural_response |-> None, gemini_used |-> FALSE]
        ELSE [status |-> "ok", error |-> "", calls |-> t.calls,
              generator_calls |-> IF called
                                  THEN <<[query |-> user_query, results |-> final_results,
                                          behaviour |-> gen]>>
                                  ELSE <<>>,
              intent |-> c.intent,
              recommended_functions |-> c.functions,
              search_terms_used |-> Prefix(search_terms, MaxSearchTerms),
              results |-> final_results,
              natural_response |-> natural_response,
              gemini_used |-> natural_response # None]

(***************************************************************************)
(* app.py: get_intelligent_response.  A fixed literal of the source is one *)
(* character of the model, named after it.                                 *)
(***************************************************************************)
NotFoundMessage == <<"[Nao encontrei informacoes especificas na documentacao. Tente reformular sua pergunta.]">>
InvalidResultMessage == <<"[Erro: Resultado de busca invalido.]">>
DefaultHeader == <<"[Encontrei estas informacoes:]">>
FunctionsLabel == <<"[**Funcoes recomendadas:** ]">>
Rule == <<"-", "-", "-">>
TipLine == <<"[**Dica:** Para mais detalhes, consulte a documentacao completa do SAP Data Services.]">>
NoTextPlaceholder == <<"[", "s", "e", "m", " ", "t", "e", "x", "t", "o", "]">>
ErrorPrefix == <<"[**Erro ao processar pergunta:**]">>

\* intent_responses.get(intent or 'general_search', 'Encontrei estas informacoes:')
IntentHeader(intent) ==
    IF intent = "" THEN <<"[intent_responses:general_search]">>
    ELSE IF intent \in sap_intent_names \cup {"general_search"}
    THEN <<"[intent_responses:" \o intent \o "]">>
    ELSE DefaultHeader

DigitChars == <<"0", "1", "2", "3", "4", "5", "6", "7", "8", "9">>

\* f"{similarity:.3f}" for a similarity given in hundredths
Format3f(similarity) ==
    LET a == IF similarity < 0 THEN 0 - similarity ELSE similarity
    IN  (IF similarity < 0 THEN <<"-">> ELSE <<>>)
        \o <<DigitChars[((a \div 100) % 10) + 1], ".",
             DigitChars[((a \div 10) % 10) + 1], DigitChars[(a % 10) + 1], "0">>

RenderLimit == 5

\* the line showing the first 100 characters of the text only
ResultLineSnippet(i, result) ==
    <<"*", "*", DigitChars[i + 1], ".", " ", "[doc]", "*", "*", " ">>
    \o <<"(", "[Similaridade: ]">> \o Format3f(result.similarity) \o <<")", "\n">>
    \o Prefix(result.text, 100)
    \o <<"\n">>

\* the line appended for result number i
ResultLine(i, result) ==
    <<"*", "*", DigitChars[i + 1], ".", " ", "[doc]", "*", "*", " ">>
    \o <<"(", "[Similaridade: ]">> \o Format3f(result.similarity) \o <<")", "\n">>
    \o (IF result.text # <<>> THEN result.text ELSE NoTextPlaceholder)
    \o <<"\n">>

\* a SearchResult: the dataclass the app builds from the dict search_intelligent returns
SearchResultOf(raw) ==
    [intent |-> raw.intent,
     recommended_functions |-> raw.recommended_functions,
     results |-> raw.results,
     natural_response |-> raw.natural_response,
     gemini_used |-> raw.gemini_used]

CommaSpace == <<",", " ">>
BlankLine == <<"\n", "\n">>

\* get_intelligent_response(user_query, search_result)
get_intelligent_response(user_query, search_result) ==
    IF search_result.natural_response # None /\ search_result.natural_response[1] # <<>>
    THEN search_result.natural_response[1]
    ELSE IF search_result.results = <<>> THEN NotFoundMessage
    ELSE LET shown == Prefix(search_result.results, RenderLimit)
             response_lines ==
                 <<IntentHeader(search_result.intent)>>
                 \o (IF search_result.recommended_functions # <<>>
                     THEN <<FunctionsLabel
                            \o JoinWith(search_result.recommended_functions, CommaSpace)>>
                     ELSE <<>>)
                 \o [i \in 1..Len(shown) |-> ResultLine(i, shown[i])]
                 \o <<Rule, TipLine>>
         IN  JoinWith(response_lines, BlankLine)

(***************************************************************************)
(* Inputs                                                                  *)
(***************************************************************************)
\* a sentence of n characters: the word repeated, blanks between, a final "."
SentenceOf(word, n) ==
    [i \in 1..n |->
        IF i = n THEN "."
        ELSE LET j == ((i - 1) % (Len(word) + 1)) + 1
             IN  IF j = Len(word) + 1 THEN " " ELSE word[j]]

QueryGreeting ==
    <<"B", "o", "m", " ", "d", "i", "a", "!">>
QueryScenarioA ==
    <<"H", "o", "w", " ", "d", "o", " ", "I", " ", "u", "s", "e", " ", "L", "O", "O", "K", "U", "P", "?">>
QueryLookup ==
    <<"C", "o", "m", "o", " ", "u", "s", "a", "r", " ", "l", "o", "o", "k", "u", "p", "?">>
QueryJoinSum ==
    <<"C", "o", "m", "o", " ", "u", "s", "a", "r", " ", "j", "o", "i", "n", " ", "p", "a", "r", "a", " ", "s", "o", "m", "a", "r", " ", "d", "a", "d", "o", "s", "?">>
TermLookup ==
    <<"l", "o", "o", "k", "u", "p">>
TermSomar ==
    <<"s", "o", "m", "a", "r">>
WordZebra == <<"z", "y", "x", "w">>
Space == <<" ">>

\* the documents indexed: each sentence becomes one passage
SetupDocuments ==
    <<SentenceOf(TermLookup, 210) \o Space \o SentenceOf(TermSomar, 220) \o Space
        \o SentenceOf(TermLookup, 230) \o Space \o SentenceOf(WordZebra, 240),
      SentenceOf(TermSomar, 210) \o Space \o SentenceOf(TermLookup, 220)>>

\* DocumentPreprocessor(chunk_size=400, overlap=50) of setup_index.py
SetupChunkSize == 400
SetupOverlap == 50

\* the DataFrame process_document returns for each document
SetupTables ==
    [d \in 1..Len(SetupDocuments) |->
        process_document(SetupDocuments[d], SetupChunkSize, SetupOverlap)]

Queries == {QueryGreeting, QueryScenarioA, QueryLookup, QueryJoinSum}
SingleQueries == {QueryLookup, TermLookup, WordZebra}
MinSimilarities == {15, 20}

\* the iteration orders of the set sap_intents considered: that of the source
\* text and its reverse
SapIntentSourceOrder ==
    <<"conditional_logic", "data_lookup", "data_validation",
      "string_operations", "date_operations", "aggregation">>

SapIntentOrders ==
    {SapIntentSourceOrder,
     [i \in 1..Len(SapIntentSourceOrder) |->
         SapIntentSourceOrder[Len(SapIntentSourceOrder) + 1 - i]]}

MaxK == 3
AppK == 5

NoCall == [op |-> "none", args |-> <<>>, out |-> <<>>]

\* the index directory before any save: neither file exists
NoFiles == [index |-> None, chunks |-> None]

\* st.session_state after init_session_state on a new session
NewSession ==
    [messages |-> <<>>, emb_manager |-> None, system_ready |-> FALSE,
     total_queries |-> 0, last_error |-> None]

(***************************************************************************)
(* The retrieval manager                                                   *)
(***************************************************************************)
Init ==
    /\ chunk_size = SetupChunkSize
    /\ overlap = SetupOverlap
    /\ content = <<>>
    /\ passages = <<>>
    /\ emitted_chunks = <<>>
    /\ pp_done = FALSE
    /\ index = None
    /\ chunks_df = None
    /\ gemini_assistant \in BOOLEAN
    /\ sap_intents \in SapIntentOrders
    /\ faiss_ties \in {"asc", "desc"}
    /\ disk = NoFiles
    /\ save_pc = "idle"
    /\ session_state = NewSession
    /\ ret = NoCall

\* create_index(chunks_df) returns
CreateIndex(table) ==
    /\ ret = NoCall
    /\ table # <<>>
    /\ chunks_df' = Some(table)
    /\ index' = Some([i \in 1..Len(table) |-> Encode(table[i].text)])
    /\ ret' = [op |-> "create_index", args |-> [rows |-> Len(table)],
               out |-> [status |-> "ok"]]
    /\ UNCHANGED <<chunker_vars, gemini_assistant, sap_intents, faiss_ties, store_vars, session_state>>

\* create_index(chunks_df) raises while the embeddings are computed: chunks_df
\* is already assigned, the index is not
CreateIndexFails(table) ==
    /\ ret = NoCall
    /\ chunks_df' = Some(table)
    /\ ret' = [op |-> "create_index", args |-> [rows |-> Len(table)],
               out |-> [status |-> "raised"]]
    /\ UNCHANGED <<chunker_vars, index, gemini_assistant, sap_intents, faiss_ties, store_vars, session_state>>

SearchSingle(query, k, min_similarity) ==
    /\ ret = NoCall
    /\ ret' = [op |-> "search_single",
               args |-> [query |-> query, k |-> k, min_similarity |-> min_similarity],
               out |-> search_single(query, k, min_similarity, index, chunks_df, faiss_ties)]
    /\ UNCHANGED <<chunker_vars, manager_vars, store_vars, session_state>>

\* classify_intent(query) and get_search_terms(query), as search_intelligent
\* calls them
ClassifyQuery(query) ==
    /\ ret = NoCall
    /\ ret' = [op |-> "classify",
               args |-> [query |-> query],
               out |-> [classified |-> classify_intent(query, sap_intents),
                        search_terms |-> get_search_terms(query, sap_intents)]]
    /\ UNCHANGED <<chunker_vars, manager_vars, store_vars, session_state>>

SearchIntelligent(query, k, gen) ==
    /\ ret = NoCall
    /\ ret' = [op |-> "search_intelligent",
               args |-> [query |-> query, k |-> k, gen |-> gen],
               out |-> search_intelligent(query, k, gen, index, chunks_df,
                                          gemini_assistant, sap_intents, faiss_ties)]
    /\ UNCHANGED <<chunker_vars, manager_vars, store_vars, session_state>>

\* the prompt handler of main, from the value search_intelligent returned (or
\* the exception it raised) to the text shown
answer_prompt(prompt, raw) ==
    [raw |-> raw,
     response |-> IF raw.status = "raised"
                  THEN ErrorPrefix \o <<raw.error>>
                  ELSE get_intelligent_response(prompt, SearchResultOf(raw))]

\* the app answers a prompt: search_intelligent(prompt, k=5), then the response
AppQuery(prompt, gen) ==
    /\ ret = NoCall
    /\ ret' = [op |-> "app_query",
               args |-> [query |-> prompt, k |-> AppK, gen |-> gen],
               out |-> answer_prompt(prompt,
                           search_intelligent(prompt, AppK, gen, index, chunks_df,
                                              gemini_assistant, sap_intents, faiss_ties))]
    /\ UNCHANGED <<chunker_vars, manager_vars, store_vars, session_state>>

\* the caller takes what the call returned or raised and goes on: the pipeline
\* is synchronous, one call at a time, and a save between its two writes has
\* not returned
Return ==
    /\ ret # NoCall
    /\ save_pc = "idle"
    /\ ret' = NoCall
    /\ UNCHANGED <<chunker_vars, manager_vars, store_vars, session_state>>

Next ==
    \/ Return
    \/ \E d \in 1..Len(SetupDocuments) : CreateIndex(SetupTables[d])
    \/ \E d \in 1..Len(SetupDocuments) : CreateIndexFails(SetupTables[d])
    \/ \E q \in SingleQueries, k \in 1..MaxK, m \in MinSimilarities : SearchSingle(q, k, m)
    \/ \E q \in Queries : ClassifyQuery(q)
    \/ \E q \in Queries, k \in 0..MaxK, g \in GeneratorBehaviours : SearchIntelligent(q, k, g)
    \/ \E q \in Queries, g \in GeneratorBehaviours : AppQuery(q, g)

Spec == Init /\ [][Next]_vars

(***************************************************************************)
(* The preprocessor on its own: a DocumentPreprocessor(chunk_size, overlap) *)
(* processes one document                                                  *)
(***************************************************************************)
\* the pieces documents are put together from: sentences of 120, 30 and 140
\* characters, a numbered heading on a line of its own, a markdown heading
\* before a blank line, a control character between blanks
Parts ==
    <<SentenceOf(<<"a", "b">>, 120),
      SentenceOf(<<"c", "d">>, 30),
      SentenceOf(<<"e", "f">>, 140),
      <<"\n", "1", ".", "2", " ", "A", "b", "\n">>,
      <<"#", "#", " ", "A", "b", "\n", "\n">>,
      <<" ", "DEL", " ">>>>

MaxParts == 3

DocumentOf(ps) == JoinWith([i \in 1..Len(ps) |-> Parts[ps[i]]], Space)

Documents ==
    {DocumentOf(ps) : ps \in UNION {[1..n -> 1..Len(Parts)] : n \in 1..MaxParts}}

\* the constructor arguments considered: small chunks, an overlap above the
\* chunk size, and those of setup_index.py
ChunkerConfigs ==
    {[chunk_size |-> 150, overlap |-> 40],
     [chunk_size |-> 150, overlap |-> 200],
     [chunk_size |-> SetupChunkSize, overlap |-> SetupOverlap]}

InitChunker ==
    /\ \E c \in ChunkerConfigs : chunk_size = c.chunk_size /\ overlap = c.overlap
    /\ content \in Documents
    /\ passages = <<>>
    /\ emitted_chunks = <<>>
    /\ pp_done = FALSE
    /\ index = None
    /\ chunks_df = None
    /\ gemini_assistant = FALSE
    /\ sap_intents = SapIntentSourceOrder
    /\ faiss_ties = "asc"
    /\ disk = NoFiles
    /\ save_pc = "idle"
    /\ session_state = NewSession
    /\ ret = NoCall

\* process_document(file_path) on the file holding content
ProcessDocument ==
    /\ ~pp_done
    /\ passages' = process_document(content, chunk_size, overlap)
    /\ emitted_chunks' = SectionChunks(split_into_sections(clean_text(content)), 1,
                                       chunk_size, overlap)
    /\ pp_done' = TRUE
    /\ UNCHANGED <<chunk_size, overlap, content, manager_vars, store_vars, session_state, ret>>

NextChunker == ProcessDocument

SpecChunker == InitChunker /\ [][NextChunker]_vars

(***************************************************************************)
(* Properties of process_document                                          *)
(***************************************************************************)
\* C10: every passage process_document produces has a text equal to its own
\* strip() and longer than 100 characters, and the chunk_ids are 0, 1, ...,
\* n-1 in emission order, also when short chunks were discarded in between
C10_PassageInvariants ==
    pp_done =>
        \A i \in 1..Len(passages) :
            /\ passages[i].text = Strip(passages[i].text)
            /\ Len(passages[i].text) > 100
            /\ passages[i].chunk_id = i - 1

\* a short chunk was discarded between two chunks that became passages
C10_Witness ==
    /\ pp_done
    /\ Len(passages) >= 2
    /\ LET cands == SectionChunks(split_into_sections(clean_text(content)), 1,
                                  chunk_size, overlap)
       IN  \E i, j, k \in 1..Len(cands) :
               /\ i < j /\ j < k
               /\ IsSignificant(cands[i])
               /\ ~IsSignificant(cands[j])
               /\ IsSignificant(cands[k])

\* the later chunk begins with one or more sentences the earlier chunk ends with
SharesSentence(earlier, later) ==
    LET se == split_into_sentences(earlier)
        sl == split_into_sentences(later)
    IN  \E n \in 1..Min(Len(se), Len(sl)) :
            SubSeq(sl, 1, n) = SubSeq(se, Len(se) - n + 1, Len(se))

\* C11: two adjacent chunks that _split_section_into_chunks emits from a
\* paragraph longer than chunk_size share a sentence: the later chunk begins
\* with at least one sentence that ends the earlier chunk.  (After _clean_text
\* the document is one paragraph.)
C11_AdjacentChunksShareSentence ==
    (pp_done /\ Len(clean_text(content)) > chunk_size) =>
        \A i \in 1..(Len(emitted_chunks) - 1) :
            emitted_chunks[i].section = emitted_chunks[i + 1].section =>
                SharesSentence(emitted_chunks[i].chunk_text,
                               emitted_chunks[i + 1].chunk_text)

\* C12: no DocumentPreprocessor has an overlap larger than its chunk_size
C12_OverlapWithinChunkSize == overlap <= chunk_size

(***************************************************************************)
(* Properties of search_intelligent                                        *)
(***************************************************************************)
\* the last call was search_intelligent, called directly or by the app
IsIntelligent == ret.op \in {"search_intelligent", "app_query"}

\* what that call of search_intelligent returned or raised
Outcome == IF ret.op = "app_query" THEN ret.out.raw ELSE ret.out

\* the entries the per-term calls of search_single returned for this call
TermEntries(o) ==
    UNION {{o.calls[c].results[j] : j \in 1..Len(o.calls[c].results)} :
               c \in 1..Len(o.calls)}

\* C1: each chunk_id appears at most once in the results of search_intelligent,
\* and its similarity is the maximum with which the per-term queries of the
\* call returned that chunk_id
C1_DedupKeepsMaximum ==
    (IsIntelligent /\ Outcome.status = "ok") =>
        LET o == Outcome
        IN  /\ \A i, j \in 1..Len(o.results) :
                   o.results[i].chunk_id = o.results[j].chunk_id => i = j
            /\ \A i \in 1..Len(o.results) :
                   /\ \E e \in TermEntries(o) :
                          /\ e.chunk_id = o.results[i].chunk_id
                          /\ e.similarity = o.results[i].similarity
                   /\ \A e \in TermEntries(o) :
                          e.chunk_id = o.results[i].chunk_id
                              => e.similarity <= o.results[i].similarity

\* a chunk two terms returned with different similarities is in the results
C1_Witness ==
    /\ IsIntelligent /\ Outcome.status = "ok"
    /\ \E i \in 1..Len(Outcome.results) : \E e \in TermEntries(Outcome) :
           /\ e.chunk_id = Outcome.results[i].chunk_id
           /\ e.similarity < Outcome.results[i].similarity

\* the chunk ids the per-term queries of the call returned
MergedIds(o) == {e.chunk_id : e \in TermEntries(o)}

\* C2: for k >= 0 the results of search_intelligent(query, k) are in
\* non-increasing similarity order, are min(k, size of the merged set) many,
\* and no merged entry left out scores strictly higher than one kept
C2_SortedTopK ==
    (IsIntelligent /\ Outcome.status = "ok") =>
        LET o == Outcome
            k == ret.args.k
            kept == {o.results[i].chunk_id : i \in 1..Len(o.results)}
        IN  /\ \A i \in 1..(Len(o.results) - 1) :
                   o.results[i].similarity >= o.results[i + 1].similarity
            /\ Len(o.results) = Min(k, Cardinality(MergedIds(o)))
            /\ kept \subseteq MergedIds(o)
            /\ \A e \in TermEntries(o) : \A i \in 1..Len(o.results) :
                   e.chunk_id \notin kept => e.similarity <= o.results[i].similarity

\* the merged set was larger than k >= 1 and was cut to k
C2_Witness ==
    /\ IsIntelligent /\ Outcome.status = "ok"
    /\ ret.args.k >= 1
    /\ Cardinality(MergedIds(Outcome)) > ret.args.k
    /\ Len(Outcome.results) = ret.args.k

NonTechnicalIntents == {"small_talk", "general_non_technical"}

\* C3: a query classified small_talk or general_non_technical gets results []
\* and recommended_functions [] without any index query, index or no index
C3_NonTechnicalSkipsIndex ==
    (IsIntelligent /\ Outcome.intent \in NonTechnicalIntents) =>
        /\ Outcome.status = "ok"
        /\ Outcome.results = <<>>
        /\ Outcome.recommended_functions = <<>>
        /\ Outcome.calls = <<>>

\* a non-technical query answered by a manager that has no index
C3_Witness ==
    /\ IsIntelligent /\ Outcome.intent \in NonTechnicalIntents
    /\ index = None
    /\ Outcome.status = "ok"

\* the generator fails: it raises, or its output is missing or blank
GeneratorFails(gen) ==
    \/ gen.kind \in {"raise", "no_candidates"}
    \/ \A i \in 1..Len(gen.output) : IsSpace(gen.output[i])

SucceedingGenerator == [kind |-> "candidates", output |-> <<"o", "k">>]

\* C4: a generator that fails or is not configured never makes
\* search_intelligent fail: the call raises only before the generator is
\* reached, natural_response is None and gemini_used False, the results are
\* those a succeeding generator would leave, and gemini_used is True exactly
\* when natural_response is not None
C4_GeneratorFailureContained ==
    IsIntelligent =>
        LET o == Outcome
            good == search_intelligent(ret.args.query, ret.args.k, SucceedingGenerator,
                                       index, chunks_df, TRUE, sap_intents, faiss_ties)
        IN  /\ o.status = good.status
            /\ o.status = "raised" => o.generator_calls = <<>>
            /\ o.status = "ok" =>
                   /\ o.results = good.results
                   /\ o.gemini_used <=> (o.natural_response # None)
                   /\ (~gemini_assistant \/ GeneratorFails(ret.args.gen)) =>
                          (o.natural_response = None /\ ~o.gemini_used)

\* the generator was called on results and failed
C4_Witness ==
    /\ IsIntelligent /\ Outcome.status = "ok"
    /\ Outcome.generator_calls # <<>>
    /\ GeneratorFails(ret.args.gen)
    /\ Outcome.results # <<>>
    /\ Outcome.natural_response = None

\* the texts occur in s one after the other, from position from on
RECURSIVE OccurInOrder(_, _, _, _)
OccurInOrder(s, texts, i, from) ==
    \/ i > Len(texts)
    \/ \E p \in from..(Len(s) - Len(texts[i]) + 1) :
           /\ s[p] = texts[i][1]
           /\ SubSeq(s, p, p + Len(texts[i]) - 1) = texts[i]
           /\ OccurInOrder(s, texts, i + 1, p + Len(texts[i]))

\* C5: with no natural_response and results, the response of
\* get_intelligent_response is the template and holds the text of each of the
\* first min(5, len(results)) results in rank order; a natural_response is
\* returned as it is; with no results the response is the fixed message
C5_FallbackKeepsEvidence ==
    (ret.op = "app_query" /\ ret.out.raw.status = "ok") =>
        LET o == ret.out.raw
            response == ret.out.response
            n == Min(5, Len(o.results))
        IN  /\ (o.natural_response = None /\ o.results # <<>>) =>
                   /\ OccurInOrder(response, [i \in 1..n |-> o.results[i].text], 1, 1)
                   /\ response # NotFoundMessage
                   /\ SubSeq(response, Len(response) - Len(TipLine) + 1, Len(response))
                          = TipLine
            /\ o.natural_response # None => response = o.natural_response[1]
            /\ o.results = <<>> => response = NotFoundMessage

\* the template rendered two or more results
C5_Witness ==
    /\ ret.op = "app_query" /\ ret.out.raw.status = "ok"
    /\ ret.out.raw.natural_response = None
    /\ Len(ret.out.raw.results) >= 2
    /\ ret.out.response # NotFoundMessage

\* C6: with the index unset search_single raises the not-ready error and
\* returns nothing, and so does search_intelligent for a query of a technical
\* intent
C6_UnsetIndexRaises ==
    index = None =>
        /\ ret.op = "search_single" =>
               (ret.out.status = "raised" /\ ret.out.error = "ValueError"
                   /\ ret.out.results = <<>>)
        /\ (IsIntelligent /\ Outcome.intent \in sap_intent_names) =>
               (Outcome.status = "raised" /\ Outcome.error = "ValueError")

\* a technical query put to a manager whose index is unset
C6_Witness ==
    /\ index = None
    /\ IsIntelligent /\ Outcome.intent \in sap_intent_names
    /\ Outcome.status = "raised"

\* C7: every result of search_single has similarity >= min_similarity, every
\* result of search_intelligent similarity >= 0.15; when all passages score
\* below the threshold the list is empty
C7_ThresholdRespected ==
    /\ (ret.op = "search_single" /\ ret.out.status = "ok") =>
           /\ \A i \in 1..Len(ret.out.results) :
                  ret.out.results[i].similarity >= ret.args.min_similarity
           /\ (\A v \in 1..Len(index[1]) :
                   InnerProduct(Encode(ret.args.query), index[1][v])
                       < ret.args.min_similarity) => ret.out.results = <<>>
    /\ (IsIntelligent /\ Outcome.status = "ok") =>
           \A i \in 1..Len(Outcome.results) : Outcome.results[i].similarity >= 15

\* a search of an index of two or more passages that all scored below the
\* threshold
C7_Witness ==
    /\ ret.op = "search_single" /\ ret.out.status = "ok"
    /\ Len(index[1]) >= 2
    /\ Len(index[1]) = Len(chunks_df[1])
    /\ \A v \in 1..Len(index[1]) :
           InnerProduct(Encode(ret.args.query), index[1][v]) < ret.args.min_similarity
    /\ ret.out.results = <<>>

\* the positions of the index whose passage scores min_similarity or more
Qualifying(query, min_similarity) ==
    {v \in 1..Len(index[1]) :
        InnerProduct(Encode(query), index[1][v]) >= min_similarity}

\* C8: search_single(query, k, min_similarity) returns exactly the min(k, q)
\* highest-scoring of the q passages of the index that score min_similarity or
\* more, in similarity-descending order, also when k exceeds the number of
\* passages
C8_TopQualifying ==
    (ret.op = "search_single" /\ index # None) =>
        LET results == ret.out.results
            qualifying == Qualifying(ret.args.query, ret.args.min_similarity)
            returned == {results[i].chunk_id + 1 : i \in 1..Len(results)}
            sim(v) == InnerProduct(Encode(ret.args.query), index[1][v])
        IN  /\ ret.out.status = "ok"
            /\ Len(results) = Min(ret.args.k, Cardinality(qualifying))
            /\ Cardinality(returned) = Len(results)
            /\ returned \subseteq qualifying
            /\ \A i \in 1..Len(results) :
                   results[i].similarity = sim(results[i].chunk_id + 1)
            /\ \A i \in 1..(Len(results) - 1) :
                   results[i].similarity >= results[i + 1].similarity
            /\ \A v \in qualifying \ returned : \A w \in returned : sim(v) <= sim(w)

\* C9: results of equal similarity are in ascending chunk_id order, in
\* search_single and in the merged results of search_intelligent
C9_TiesByAscendingId ==
    LET results == IF ret.op = "search_single" THEN ret.out.results
                   ELSE IF IsIntelligent THEN Outcome.results
                   ELSE <<>>
    IN  \A i, j \in 1..Len(results) :
           (i < j /\ results[i].similarity = results[j].similarity)
               => results[i].chunk_id < results[j].chunk_id

(***************************************************************************)
(* Properties of the intent classifier                                     *)
(***************************************************************************)
IsClassify == ret.op = "classify"

\* the groups in priority order: small talk, general questions, then the
\* technical intents as the source lists them
GroupPriority == <<"small_talk", "general_non_technical">> \o SapIntentSourceOrder

\* the groups with a pattern that matches the lower-cased query
MatchingGroups(query) ==
    {g \in 1..Len(GroupPriority) : AnyPatternMatches(GroupPriority[g], Lower(query))}

\* the first group in priority order that matches, general_non_technical if none
FirstGroup(query) ==
    IF MatchingGroups(query) = {} THEN "general_non_technical"
    ELSE GroupPriority[CHOOSE g \in MatchingGroups(query) :
                           \A h \in MatchingGroups(query) : g <= h]

FunctionsOf(intent) ==
    IF intent \in sap_intent_names THEN function_mapping[intent] ELSE <<>>

\* C13: classification is a priority dispatch in one fixed order: the first
\* group with a matching pattern wins, so a query matching several technical
\* intents always gets the same, highest-priority intent and its functions
C13_FixedPriorityDispatch ==
    IsClassify =>
        /\ ret.out.classified.intent = FirstGroup(ret.args.query)
        /\ ret.out.classified.functions = FunctionsOf(FirstGroup(ret.args.query))

\* C14: search_intelligent with the same query on the same index returns the
\* same results list in this run and in any other run of the program, that is
\* under every iteration order of the set sap_intents
C14_SameResultsInEveryRun ==
    (IsIntelligent /\ Outcome.status = "ok") =>
        \A order \in SapIntentOrders :
            search_intelligent(ret.args.query, ret.args.k, ret.args.gen, index, chunks_df,
                               gemini_assistant, order, faiss_ties).results
                = Outcome.results

\* the index holds a passage that scores 0.15 or more for the term lookup
IndexMatchesLookup ==
    /\ index # None /\ chunks_df # None
    /\ Len(index[1]) = Len(chunks_df[1])
    /\ \E v \in 1..Len(index[1]) : InnerProduct(Encode(TermLookup), index[1][v]) >= 15

\* C15: "How do I use LOOKUP?" is classified data_lookup with lookup and
\* lookup_ext among the recommended terms, and search_intelligent returns
\* results for it when the index holds a passage matching lookup
C15_ScenarioA ==
    /\ (IsClassify /\ ret.args.query = QueryScenarioA) =>
           /\ ret.out.classified.intent = "data_lookup"
           /\ \E i, j \in 1..Len(ret.out.classified.functions) :
                  /\ ret.out.classified.functions[i] = TermLookup
                  /\ ret.out.classified.functions[j] = TermLookup \o <<"_", "e", "x", "t">>
    /\ (IsIntelligent /\ ret.args.query = QueryScenarioA /\ ret.args.k >= 1
            /\ IndexMatchesLookup) =>
           /\ Outcome.intent = "data_lookup"
           /\ Outcome.results # <<>>

\* C16: a query no pattern of any group matches is general_non_technical with
\* no recommended terms, get_search_terms gives [] and no search is run
C16_FallbackIntent ==
    /\ (IsClassify /\ MatchingGroups(ret.args.query) = {}) =>
           /\ ret.out.classified = [intent |-> "general_non_technical", functions |-> <<>>]
           /\ ret.out.search_terms = <<>>
    /\ (IsIntelligent /\ MatchingGroups(ret.args.query) = {}) =>
           /\ Outcome.status = "ok"
           /\ Outcome.intent = "general_non_technical"
           /\ Outcome.calls = <<>>
           /\ Outcome.results = <<>>

\* a query that no pattern matches was classified
C16_Witness ==
    /\ IsClassify
    /\ MatchingGroups(ret.args.query) = {}
    /\ ret.out.search_terms = <<>>

\* C17: get_search_terms gives [] when the intent is not technical, otherwise
\* the query followed by the intent's recommended functions in their order; it
\* is non-empty exactly when classify_intent gives recommended functions
C17_SearchTerms ==
    IsClassify =>
        LET c == ret.out.classified
            terms == ret.out.search_terms
        IN  /\ c.intent \notin sap_intent_names => terms = <<>>
            /\ c.intent \in sap_intent_names =>
                   terms = <<ret.args.query>> \o function_mapping[c.intent]
            /\ (terms # <<>>) <=> (c.functions # <<>>)

\* a query of a technical intent got its terms
C17_Witness ==
    /\ IsClassify
    /\ ret.out.classified.intent \in sap_intent_names
    /\ Len(ret.out.search_terms) >= 2

(***************************************************************************)
(* Persistence: save and load of one manager on the directory index_data   *)
(***************************************************************************)
InitStore ==
    /\ chunk_size = SetupChunkSize
    /\ overlap = SetupOverlap
    /\ content = <<>>
    /\ passages = <<>>
    /\ emitted_chunks = <<>>
    /\ pp_done = FALSE
    /\ index = None
    /\ chunks_df = None
    /\ gemini_assistant = FALSE
    /\ sap_intents = SapIntentSourceOrder
    /\ faiss_ties = "asc"
    /\ disk = NoFiles
    /\ save_pc = "idle"
    /\ session_state = NewSession
    /\ ret = NoCall

\* save(): faiss.write_index(self.index, ...) writes faiss.index, or raises
\* when there is no index to write
SaveWriteIndex ==
    /\ ret = NoCall
    /\ save_pc = "idle"
    /\ IF index = None
       THEN /\ ret' = [op |-> "save", args |-> <<>>, out |-> [status |-> "raised"]]
            /\ UNCHANGED <<disk, save_pc>>
       ELSE /\ disk' = [disk EXCEPT !.index = index]
            /\ save_pc' = "index_written"
            /\ ret' = [op |-> "save", args |-> <<>>, out |-> [status |-> "writing"]]
    /\ UNCHANGED <<chunker_vars, manager_vars, session_state>>

\* save(): self.chunks_df.write_parquet(...) writes chunks.parquet, or raises
\* when there is no passage table
SaveWriteChunks ==
    /\ save_pc = "index_written"
    /\ save_pc' = "idle"
    /\ IF chunks_df = None
       THEN /\ ret' = [op |-> "save", args |-> <<>>, out |-> [status |-> "raised"]]
            /\ UNCHANGED disk
       ELSE /\ disk' = [disk EXCEPT !.chunks = chunks_df]
            /\ ret' = [op |-> "save", args |-> <<>>, out |-> [status |-> "ok"]]
    /\ UNCHANGED <<chunker_vars, manager_vars, session_state>>

\* save(): write_parquet raises with faiss.index already written
SaveInterrupted ==
    /\ save_pc = "index_written"
    /\ save_pc' = "idle"
    /\ ret' = [op |-> "save", args |-> <<>>, out |-> [status |-> "raised"]]
    /\ UNCHANGED <<chunker_vars, manager_vars, disk, session_state>>

\* load(): read_index, then read_parquet; either raises when its file is
\* missing, the second with self.index already assigned
Load ==
    /\ ret = NoCall
    /\ save_pc = "idle"
    /\ IF disk.index = None
       THEN /\ ret' = [op |-> "load", args |-> <<>>, out |-> [status |-> "raised"]]
            /\ UNCHANGED <<index, chunks_df>>
       ELSE /\ index' = disk.index
            /\ IF disk.chunks = None
               THEN /\ ret' = [op |-> "load", args |-> <<>>,
                               out |-> [status |-> "raised"]]
                    /\ UNCHANGED chunks_df
               ELSE /\ chunks_df' = disk.chunks
                    /\ ret' = [op |-> "load", args |-> <<>>, out |-> [status |-> "ok"]]
    /\ UNCHANGED <<chunker_vars, gemini_assistant, sap_intents, faiss_ties, store_vars, session_state>>

NextStore ==
    \/ Return
    \/ \E d \in 1..Len(SetupDocuments) : CreateIndex(SetupTables[d])
    \/ \E d \in 1..Len(SetupDocuments) : CreateIndexFails(SetupTables[d])
    \/ SaveWriteIndex
    \/ SaveWriteChunks
    \/ SaveInterrupted
    \/ Load

SpecStore == InitStore /\ [][NextStore]_vars

(***************************************************************************)
(* Properties of save, load and create_index                               *)
(***************************************************************************)
\* the vectors are the embeddings of the table's texts, row by row
Matches(vectors, table) ==
    /\ Len(vectors) = Len(table)
    /\ \A i \in 1..Len(table) : vectors[i] = Encode(table[i].text)

\* C18: whenever the index file exists on disk, the passage table file exists
\* too and holds the passages the index file was built from
C18_SaveAtomic ==
    disk.index # None =>
        /\ disk.chunks # None
        /\ Matches(disk.index[1], disk.chunks[1])

\* C19: a load that returns normally has loaded as many passages as embeddings
C19_LoadChecksCounts ==
    (ret.op = "load" /\ ret.out.status = "ok") =>
        Len(index[1]) = Len(chunks_df[1])

\* C20: index and chunks_df are both unset, or both set and from the same
\* build, also after a create_index or load that raised
C20_IndexAndTableTogether ==
    \/ index = None /\ chunks_df = None
    \/ /\ index # None
       /\ chunks_df # None
       /\ Matches(index[1], chunks_df[1])

(***************************************************************************)
(* Properties of the term loop and the generator call of search_intelligent *)
(***************************************************************************)
RECURSIVE HitsOfCalls(_, _)
\* all_results: the results of the calls of search_single from the i-th on
HitsOfCalls(calls, i) ==
    IF i > Len(calls) THEN <<>>
    ELSE calls[i].results \o HitsOfCalls(calls, i + 1)

C29_GeneratorAfterFinalResults ==
    IsIntelligent =>
        LET o == Outcome
        IN  /\ Len(o.generator_calls) <= 1
            /\ \A g \in 1..Len(o.generator_calls) :
                   /\ o.generator_calls[g].results = o.results
                   /\ o.generator_calls[g].results =
                          FinalResults(HitsOfCalls(o.calls, 1), ret.args.k)
                   /\ o.generator_calls[g].results # <<>>
            /\ o.results = <<>> => (o.natural_response = None /\ ~o.gemini_used)

\* a manager with a generator that would answer returned empty results for a
\* technical query it searched the index for
C29_Witness ==
    /\ IsIntelligent /\ Outcome.status = "ok"
    /\ gemini_assistant
    /\ ~GeneratorFails(ret.args.gen)
    /\ Outcome.calls # <<>>
    /\ Outcome.results = <<>>

(***************************************************************************)
(* Properties of the chunks and rows of process_document                   *)
(***************************************************************************)
\* C22: when no sentence of the section text is longer than chunk_size, no
\* chunk _split_section_into_chunks emits is longer than chunk_size
C22_ChunksWithinChunkSize ==
    (/\ pp_done
     /\ \A i \in 1..Len(split_into_sentences(clean_text(content))) :
            Len(split_into_sentences(clean_text(content))[i]) <= chunk_size) =>
        \A c \in 1..Len(emitted_chunks) :
            Len(emitted_chunks[c].chunk_text) <= chunk_size

\* the non-empty lines of the document as written
DocumentLines == SelectSeq(StripAll(SplitChar(content, "\n")), NonEmpty)

\* the lines of the document that are headings
HeadingLines == {i \in 1..Len(DocumentLines) : HeadingEnd(DocumentLines[i]) > 0}

\* the label of the most recent heading line at or before line i, the default
\* label before the first heading
LabelAt(i) ==
    LET before == {h \in HeadingLines : h <= i}
    IN  IF before = {} THEN Introducao
        ELSE LET h == CHOOSE h \in before : \A g \in before : g <= h
             IN  Strip(SubSeq(DocumentLines[h], 1, HeadingEnd(DocumentLines[h])))

\* s occurs in t
Occurs(s, t) ==
    \E k \in 1..(Len(t) - Len(s) + 1) : SubSeq(t, k, k + Len(s) - 1) = s

\* the lines under a heading or before the first one of which the text holds a
\* sentence
LinesTakenFrom(text) ==
    {i \in (1..Len(DocumentLines)) \ HeadingLines :
        \E n \in 1..Len(split_into_sentences(clean_text(DocumentLines[i]))) :
            Occurs(split_into_sentences(clean_text(DocumentLines[i]))[n], text)}

\* C24: in a document with several heading lines every passage carries the
\* label of a section its text was taken from: that of the most recent heading
\* above the text, the default label only for text before the first heading
C24_PassagesCarrySectionLabel ==
    (pp_done /\ Cardinality(HeadingLines) >= 2) =>
        \A p \in 1..Len(passages) :
            LinesTakenFrom(passages[p].text) # {} =>
                \E i \in LinesTakenFrom(passages[p].text) :
                    passages[p].section = LabelAt(i)

\* C30: char_count is the length of the stored text and word_count the number
\* of its whitespace-separated words, for every passage
C30_CountsOfStoredText ==
    pp_done =>
        \A p \in 1..Len(passages) :
            /\ passages[p].char_count = Len(passages[p].text)
            /\ passages[p].word_count = WordCount(passages[p].text)

(***************************************************************************)
(* The methods of the preprocessor called on their own, each on the text   *)
(* content as it is written                                                *)
(***************************************************************************)
SplitIntoSections ==
    /\ ret = NoCall
    /\ ret' = [op |-> "split_into_sections", args |-> [text |-> content],
               out |-> [sections |-> split_into_sections(content)]]
    /\ UNCHANGED <<chunker_vars, manager_vars, store_vars, session_state>>

SplitSectionIntoChunks ==
    /\ ret = NoCall
    /\ ret' = [op |-> "split_section_into_chunks", args |-> [text |-> content],
               out |-> [chunks |-> split_section_into_chunks(content, chunk_size, overlap)]]
    /\ UNCHANGED <<chunker_vars, manager_vars, store_vars, session_state>>

GetOverlapSentences ==
    /\ ret = NoCall
    /\ ret' = [op |-> "get_overlap_sentences", args |-> [text |-> content],
               out |-> [overlap_text |-> get_overlap_sentences(content, overlap)]]
    /\ UNCHANGED <<chunker_vars, manager_vars, store_vars, session_state>>

NextSplitter ==
    \/ SplitIntoSections
    \/ SplitSectionIntoChunks
    \/ GetOverlapSentences
    \/ Return

SpecSplitter == InitChunker /\ [][NextSplitter]_vars

(***************************************************************************)
(* Properties of _split_into_sections, _split_section_into_chunks and      *)
(* _get_overlap_sentences                                                  *)
(***************************************************************************)
RECURSIVE LabelledLines(_, _)
\* the lines of the sections from the i-th on, each with its section's label
LabelledLines(sections, i) ==
    IF i > Len(sections) THEN <<>>
    ELSE LET lines == SplitChar(sections[i][2], "\n")
         IN  [k \in 1..Len(lines) |-> <<sections[i][1], lines[k]>>]
             \o LabelledLines(sections, i + 1)

\* C23: _split_into_sections puts every line into the section labelled with
\* the most recent heading line at or before it, a heading that is the first
\* non-empty line included, and into the default section only the lines before
\* the first heading
C23_HeadingStartsSection ==
    ret.op = "split_into_sections" =>
        LabelledLines(ret.out.sections, 1) =
            [i \in 1..Len(DocumentLines) |-> <<LabelAt(i), DocumentLines[i]>>]

\* the paragraphs of the text
ParagraphsOf(text) == SelectSeq(StripAll(SplitParagraphs(text)), NonEmpty)

\* s begins with t
BeginsWith(s, t) == Len(t) <= Len(s) /\ SubSeq(s, 1, Len(t)) = t

\* C25: when no paragraph is longer than chunk_size, so that every chunk but
\* the last was emitted because the next paragraph would exceed chunk_size,
\* the chunk after it begins with the overlap tail of the chunk emitted,
\* followed by a paragraph
C25_ParagraphBufferKeepsOverlap ==
    (/\ ret.op = "split_section_into_chunks"
     /\ \A p \in 1..Len(ParagraphsOf(content)) :
            Len(ParagraphsOf(content)[p]) <= chunk_size) =>
        \A c \in 1..(Len(ret.out.chunks) - 1) :
            \E p \in 1..Len(ParagraphsOf(content)) :
                BeginsWith(ret.out.chunks[c + 1],
                           Strip(get_overlap_sentences(ret.out.chunks[c], overlap)
                                 \o <<" ">> \o ParagraphsOf(content)[p]))

\* C26: the overlap tail is a run of whole trailing sentences of the text in
\* reading order, joined by blanks, the last sentence of the text being its
\* last unless it is empty, and it is at most overlap characters long
C26_OverlapTail ==
    ret.op = "get_overlap_sentences" =>
        LET sentences == split_into_sentences(content)
            tail == ret.out.overlap_text
        IN  /\ \E n \in 0..Len(sentences) :
                   tail = JoinWith(SubSeq(sentences, Len(sentences) - n + 1,
                                          Len(sentences)), <<" ">>)
            /\ Len(tail) <= overlap

\* a tail of two or more sentences that leaves a sentence of the text out
C26_Witness ==
    /\ ret.op = "get_overlap_sentences"
    /\ Len(split_into_sentences(ret.out.overlap_text)) >= 2
    /\ Len(split_into_sentences(ret.out.overlap_text))
           < Len(split_into_sentences(content))

(***************************************************************************)
(* app.py: one browser session of the Streamlit app.  Every interaction of *)
(* the user runs main() once, from init_session_state to the prompt; the   *)
(* 'ts' of a message is left out.  setup_index.py runs beside the app.     *)
(***************************************************************************)
\* the list exemplos of render_sidebar
exemplos ==
    << <<"[Como usar a funcao LOOKUP?]">>,
       <<"[Como fazer validacao de dados?]">>,
       <<"[Diferenca entre MERGE e INSERT?]">>,
       <<"[Como trabalhar com datas?]">>,
       <<"[Qual a sintaxe do CASE WHEN?]">> >>

UserMessage(text) == [role |-> "user", content |-> text]
AssistantMessage(text) == [role |-> "assistant", content |-> text]

\* what triggered the script run: nothing (a rerun), a button, or the chat input
NoWidget == [kind |-> "none", arg |-> <<>>]
ReloadButton == [kind |-> "reload", arg |-> <<>>]
ClearButton == [kind |-> "clear", arg |-> <<>>]
ExampleButton(i) == [kind |-> "example", arg |-> i]
ChatInput(prompt) == [kind |-> "prompt", arg |-> prompt]

\* render_sidebar: the effect of the button clicked, if one was
render_sidebar(s, w) ==
    IF w.kind = "reload"
    THEN [s EXCEPT !.system_ready = FALSE, !.emb_manager = None, !.last_error = None]
    ELSE IF w.kind = "clear"
    THEN [s EXCEPT !.messages = <<>>, !.total_queries = 0]
    ELSE IF w.kind = "example"
    THEN [s EXCEPT !.messages = Append(@, UserMessage(exemplos[w.arg]))]
    ELSE s

IndexNotFoundMessage == <<"[Indice nao encontrado em: index_data]">>
LoadFailedMessage == <<"[Erro ao instanciar/ carregar o emb_manager]">>

\* safe_load_embedding_manager('index_data') on the files of the directory: a
\* new manager loaded from them, or None with the error for last_error
safe_load_embedding_manager(files) ==
    IF files = NoFiles
    THEN [emb_manager |-> None, last_error |-> Some(IndexNotFoundMessage)]
    ELSE IF files.index = None \/ files.chunks = None
    THEN [emb_manager |-> None, last_error |-> Some(LoadFailedMessage)]
    ELSE [emb_manager |-> Some([index |-> files.index, chunks_df |-> files.chunks]),
          last_error |-> None]

\* "if not st.session_state.system_ready": the load of main
initialize_system(s, files) ==
    IF s.system_ready THEN s
    ELSE LET loaded == safe_load_embedding_manager(files)
         IN  IF loaded.emb_manager # None
             THEN [s EXCEPT !.emb_manager = loaded.emb_manager, !.system_ready = TRUE]
             ELSE [s EXCEPT !.last_error = loaded.last_error]

SearchRaised(error) == [status |-> "raised", error |-> error]

\* emb.search_intelligent(prompt, k=5) on the manager of the session; fault: the
\* search raises
session_search(s, prompt, gen, fault, has_gemini, order, ties) ==
    IF s.emb_manager = None THEN SearchRaised("AttributeError")
    ELSE IF fault THEN SearchRaised("RuntimeError")
    ELSE search_intelligent(prompt, AppK, gen, s.emb_manager[1].index,
                            s.emb_manager[1].chunks_df, has_gemini, order, ties)

\* the prompt handler answering whether the system is ready or not
handle_prompt_unguarded(s, prompt, answer) ==
    IF Strip(prompt) = <<>> THEN [session |-> s, searched |-> FALSE]
    ELSE LET asked == [s EXCEPT !.total_queries = @ + 1,
                                !.messages = Append(@, UserMessage(prompt))]
         IN  [session |->
                  IF answer.raw.status = "raised"
                  THEN [asked EXCEPT !.last_error = Some(<<answer.raw.error>>),
                                     !.messages = Append(@, AssistantMessage(answer.response))]
                  ELSE [asked EXCEPT !.messages =
                                         Append(@, AssistantMessage(answer.response))],
              searched |-> TRUE]

\* the prompt handler of main: answer is what the search and the response
\* building give if they are reached
handle_prompt(s, prompt, answer) ==
    IF Strip(prompt) = <<>> THEN [session |-> s, searched |-> FALSE]
    ELSE IF ~s.system_ready \/ s.emb_manager = None
    THEN [session |-> s, searched |-> FALSE]
    ELSE LET asked == [s EXCEPT !.total_queries = @ + 1,
                                !.messages = Append(@, UserMessage(prompt))]
         IN  [session |->
                  IF answer.raw.status = "raised"
                  THEN [asked EXCEPT !.last_error = Some(<<answer.raw.error>>),
                                     !.messages = Append(@, AssistantMessage(answer.response))]
                  ELSE [asked EXCEPT !.messages =
                                         Append(@, AssistantMessage(answer.response))],
              searched |-> TRUE]

\* the longest chat history considered
MaxMessages == 3

AppPrompts == {QueryLookup, <<" ">>}

\* the interactions that run main() to its end
Widgets ==
    {NoWidget, ClearButton}
        \cup {ExampleButton(i) : i \in 1..Len(exemplos)}
        \cup {ChatInput(q) : q \in AppPrompts}

InitApp ==
    /\ chunk_size = SetupChunkSize
    /\ overlap = SetupOverlap
    /\ content = <<>>
    /\ passages = <<>>
    /\ emitted_chunks = <<>>
    /\ pp_done = FALSE
    /\ index = None
    /\ chunks_df = None
    /\ gemini_assistant = FALSE
    /\ sap_intents = SapIntentSourceOrder
    /\ faiss_ties = "asc"
    /\ disk = NoFiles
    /\ save_pc = "idle"
    /\ session_state = NewSession
    /\ ret = NoCall

\* setup_index.py ran to its end: both files of the build are in index_data
SetupIndex(table) ==
    /\ ret = NoCall
    /\ disk' = [index |-> Some([i \in 1..Len(table) |-> Encode(table[i].text)]),
                chunks |-> Some(table)]
    /\ ret' = [op |-> "setup_index", args |-> [rows |-> Len(table)],
               out |-> [status |-> "ok"]]
    /\ UNCHANGED <<chunker_vars, manager_vars, save_pc, session_state>>

\* setup_index.py stopped in save, after faiss.index and before chunks.parquet
SetupIndexInterrupted(table) ==
    /\ ret = NoCall
    /\ disk' = [disk EXCEPT !.index = Some([i \in 1..Len(table) |-> Encode(table[i].text)])]
    /\ ret' = [op |-> "setup_index", args |-> [rows |-> Len(table)],
               out |-> [status |-> "raised"]]
    /\ UNCHANGED <<chunker_vars, manager_vars, save_pc, session_state>>

\* a click on 'Recarregar Indice': the sidebar resets the session fields and
\* st.experimental_rerun() ends this run, asking for another
ClickReload ==
    /\ ret = NoCall
    /\ session_state # NewSession
    /\ session_state' = render_sidebar(session_state, ReloadButton)
    /\ ret' = [op |-> "script_run",
               args |-> [widget |-> ReloadButton, before |-> session_state],
               out |-> [load |-> "none", searched |-> FALSE, rerun |-> TRUE]]
    /\ UNCHANGED <<chunker_vars, manager_vars, store_vars>>

\* the run asked for by st.experimental_rerun() has not started yet
RerunPending == ret.op = "script_run" /\ ret.out.rerun

\* the end of a run of main: the session as the handler left it, and what the
\* run did
EndOfRun(w, sidebar, handled) ==
    /\ session_state' = handled.session
    /\ ret' = [op |-> "script_run",
               args |-> [widget |-> w, before |-> session_state],
               out |-> [load |-> IF sidebar.system_ready THEN "none"
                                 ELSE IF handled.session.system_ready THEN "ok"
                                 ELSE "failed",
                        searched |-> handled.searched,
                        rerun |-> FALSE]]

\* what main does after the sidebar: the load if the system is not ready, then
\* the prompt if one was submitted
after_sidebar(s, w, files, gen, fault, has_gemini, order, ties) ==
    IF w.kind = "prompt"
    THEN handle_prompt(initialize_system(s, files), w.arg,
                       answer_prompt(w.arg,
                           session_search(initialize_system(s, files), w.arg, gen, fault,
                                          has_gemini, order, ties)))
    ELSE [session |-> initialize_system(s, files), searched |-> FALSE]

\* one run of main() to its end, triggered by the widget w; the widgets are on
\* the page once main() has run in the session
ScriptRun(w, gen, fault) ==
    /\ ret = NoCall \/ (RerunPending /\ w = NoWidget)
    /\ session_state = NewSession => w = NoWidget
    /\ w.kind = "example" => Len(session_state.messages) + 1 <= MaxMessages
    /\ w.kind = "prompt" => Len(session_state.messages) + 2 <= MaxMessages
    /\ EndOfRun(w, render_sidebar(session_state, w),
                after_sidebar(render_sidebar(session_state, w), w, disk, gen, fault,
                              gemini_assistant, sap_intents, faiss_ties))
    /\ UNCHANGED <<chunker_vars, manager_vars, store_vars>>

NextApp ==
    \/ Return
    \/ SetupIndex(SetupTables[1])
    \/ SetupIndexInterrupted(SetupTables[1])
    \/ ClickReload
    \/ \E w \in Widgets, fault \in BOOLEAN : ScriptRun(w, SucceedingGenerator, fault)

SpecApp == InitApp /\ [][NextApp]_vars

(***************************************************************************)
(* Properties of the Streamlit session                                     *)
(***************************************************************************)
\* a run of main() has just ended
IsRun == ret.op = "script_run"

\* system_ready implies a manager, a search happens only with both, and a
\* failed load leaves system_ready False and last_error set
ReadyMeansManager ==
    /\ session_state.system_ready => session_state.emb_manager # None
    /\ IsRun =>
           /\ ret.out.searched =>
                  (session_state.system_ready /\ session_state.emb_manager # None)
           /\ ret.out.load = "failed" =>
                  (~session_state.system_ready /\ session_state.last_error # None)

\* C27 as stated: besides the above, a prompt submitted while system_ready is
\* False triggers no search and leaves messages and total_queries unchanged
C27_NotReadyPromptIgnored ==
    /\ ReadyMeansManager
    /\ (IsRun /\ ret.args.widget.kind = "prompt" /\ ~ret.args.before.system_ready) =>
           /\ ~ret.out.searched
           /\ session_state.messages = ret.args.before.messages
           /\ session_state.total_queries = ret.args.before.total_queries

\* C27 amended: the same for a prompt submitted while system_ready is False
\* when the load that its run tries first fails too
C27_NotReadyAfterLoadPromptIgnored ==
    /\ ReadyMeansManager
    /\ (/\ IsRun /\ ret.args.widget.kind = "prompt"
        /\ ~ret.args.before.system_ready
        /\ ret.out.load = "failed") =>
           /\ ~ret.out.searched
           /\ session_state.messages = ret.args.before.messages
           /\ session_state.total_queries = ret.args.before.total_queries

\* a prompt that is not blank, submitted to a session that was not ready, in a
\* run whose load failed
C27_Witness ==
    /\ IsRun /\ ret.args.widget.kind = "prompt"
    /\ Strip(ret.args.widget.arg) # <<>>
    /\ ~ret.args.before.system_ready
    /\ ret.args.before.last_error # None
    /\ ret.out.load = "failed"
    /\ ~ret.out.searched

\* C28: at the end of every run of main() every user message of the history
\* is immediately followed by exactly one assistant message, and total_queries
\* is the number of user messages
C28_HistoryPaired ==
    IsRun =>
        LET m == session_state.messages
        IN  /\ \A i \in 1..Len(m) :
                   m[i].role = "user" =>
                       /\ i < Len(m)
                       /\ m[i + 1].role = "assistant"
                       /\ (i + 2 <= Len(m) => m[i + 2].role = "user")
            /\ session_state.total_queries =
                   Cardinality({i \in 1..Len(m) : m[i].role = "user"})

====
